---- MODULE Spec2Model ----
(***************************************************************************)
(* Model of the barcode scanner's detection-orchestration and             *)
(* deduplication subsystem.                                                *)
(*                                                                         *)
(* DeduplicationManager (utils/deduplication) is modelled operation by     *)
(* operation.  The JavaScript Map `barcodeMap` is a sequence of entries in *)
(* insertion order (Map iteration order); Date.now() is the variable       *)
(* `now`, advanced by the Tick action.  Strings are TLA+ strings and the   *)
(* key is built by concatenation, as the template literal does.            *)
(***************************************************************************)
EXTENDS Integers, Sequences, FiniteSets, TLC

(* ---------------------------------------------------------------------- *)
(* Program constants                                                       *)
(* ---------------------------------------------------------------------- *)

DUPLICATE_WINDOW_MS == 2000

\* hooks/useBarcodeDetection: the time (ms) after which a decode is given up.
DETECTION_TIMEOUT == 5000

(* ---------------------------------------------------------------------- *)
(* Bounds of the model                                                     *)
(* ---------------------------------------------------------------------- *)

\* Largest wall-clock value (ms) the clock is advanced to.
MaxNow == 4000

\* Largest number of addOrUpdate calls in one run.
MaxCalls == 3

\* Amounts (ms) by which wall-clock time advances between two calls.
TickSteps == {1000, 2000}

\* The format and value strings callers pass.  ':' occurs in both, so that
\* different (format, value) pairs can concatenate to the same key.
Formats == {"a", "a:"}
Values == {"a", ":a"}

\* Offsets (ms) of the timestamp argument from the wall clock: the callers in
\* the repository pass Date.now() (offset 0); the method accepts any number.
TimestampOffsets == {-500, 0}

\* Largest wall-clock value (ms) in a run of the application.
MaxAppNow == 10000

\* Largest number of initializeCamera calls in one run.
MaxInits == 3

\* The sampling ticks of a continuous run, the time it covers and the steps
\* of its clock.
MaxTicks == 6
MaxContNow == 300
ContTickSteps == {50, 100}

\* What one decode of a frame finds across its regions.
Pair1 == [format |-> "qr_code", value |-> "a"]
Pair2 == [format |-> "ean_13", value |-> "b"]
ContDecoded == {<<>>, <<Pair1>>, <<Pair1, Pair1>>, <<Pair1, Pair2>>}

\* The time an upload session covers and the steps of its clock.
MaxApiNow == 3000
ApiTickSteps == {1000}

\* Amounts (ms) by which wall-clock time advances between two events of the
\* application.
AppTickSteps == {1000, 5000}

\* What jsQR finds in a photo: nothing (null) or one QR code.
QrOutcomes == {"none", "a"}

\* What BarcodeDetector.detect resolves to: barcodes with a rawValue and a
\* format; the format may be empty.
Barcode1 == [rawValue |-> "a", format |-> "ean_13"]
Barcode2 == [rawValue |-> "b", format |-> ""]
Detections1D == {<<>>, <<Barcode1>>, <<Barcode1, Barcode1>>,
                 <<Barcode1, Barcode2>>}

\* What a collaborator throws: an Error with a message, or a value that is
\* not an Error.
Thrown == {[isError |-> TRUE, text |-> "SecurityError"],
           [isError |-> FALSE, text |-> "oops"]}

(* ---------------------------------------------------------------------- *)
(* State                                                                   *)
(* ---------------------------------------------------------------------- *)

VARIABLES
  now,          \* Date.now(): the wall clock, in ms
  barcodeMap,   \* DeduplicationManager.barcodeMap, in insertion order
  call,         \* the most recent call on the manager: arguments, the clock
                \* it read, the map it found and the value it returned
  nCalls,       \* number of addOrUpdate calls so far
  accepted,     \* per key: the addOrUpdate calls since its entry was created
  barcodeMapB,  \* a second manager driven by the same calls at the same
  callB,        \* times, with timestamps of its own (two-run comparison)
  held,         \* a result object a caller of the manager keeps a reference to
  notified      \* per key: wall-clock times of the non-null returns since
                \* the last clear()

\* The state of a caller of the manager.
clientVars == <<held, notified>>

\* The single-shot application (App.tsx, first component) and the detection
\* hook it uses (hooks/useBarcodeDetection, the BarcodeDetector version).
VARIABLES
  scanState,      \* App: 'idle' | 'processing' | 'completed' | 'no-result' |
                  \* 'error'
  errorMessage,   \* App: string | null
  cameraEnabled,  \* App: the camera toggle
  stream,         \* useCamera: cameraState.stream is non-null
  results,        \* useBarcodeDetection: detectionState.results
  isScanning,     \* useBarcodeDetection: detectionState.isScanning
  error,          \* useBarcodeDetection: detectionState.error
  capturePc,      \* position inside handleCapturePhoto's synchronous part
  detect,         \* the detectFromImage call in flight: its closure
                  \* (hasResolved, timeoutId) and how far the decode got
  settle,         \* how the detectFromImage call of this capture settled
  prior           \* the closure of the detectFromImage call before this
                  \* one, while callbacks or the timeout of it are still to
                  \* come (the model follows one earlier call)

appVars == <<scanState, errorMessage, cameraEnabled, stream, results,
             isScanning, error, capturePc, detect, settle, prior>>

\* The camera hook (hooks/useCamera) on its own, under every order of
\* enabling, disabling, unmounting and completions of getUserMedia.
VARIABLES
  camSupported,   \* navigator.mediaDevices.getUserMedia exists: "yes" or
                  \* "no", "unknown" until the first test
  camEnabled,     \* the `enabled` argument the last effect ran with
  camMounted,     \* the component using the hook is mounted
  cameraState,    \* useState: stream, error, isLoading, hasPermission
  streamRef,      \* streamRef.current: 0 (null) or a stream
  inits,          \* the initializeCamera calls made so far, in order: where
                  \* each one is, the `mounted` flag of its effect and how
                  \* it ended; call i acquires stream i
  liveStreams,    \* the streams with a track that has not been stopped
  retryTimer      \* App: the timer of handlePermissionRetry is pending

camVars == <<camSupported, camEnabled, camMounted, cameraState, streamRef,
             inits, liveStreams, retryTimer>>

\* The continuous (live video) scan driver.
VARIABLES
  contEnabled,    \* the `enabled` flag of the driver
  scheduled,      \* a sampling tick is scheduled
  frameCount,     \* the sampling ticks counted so far
  lastAttempt,    \* the time of the last decode attempt, -1 before the first
  prevAttempt,    \* the time of the attempt before it, -1 if there is none
  inFlight,       \* the in-flight flag
  running,        \* the decode invocations that have not finished
  attempts,       \* the number of decode invocations so far
  tickLog         \* what each sampling tick did, in order

contVars == <<contEnabled, scheduled, frameCount, lastAttempt, prevAttempt,
              inFlight, running, attempts, tickLog>>

\* The upload-based hook (hooks/useBarcodeAPI).
VARIABLES
  apiState,       \* useState: results, isScanning, error
  apiCall         \* the scanImage call: where it is and what it returned

apiVars == <<apiState, apiCall>>

\* The state of the hooks modelled on their own.
hookVars == <<camVars, contVars, apiVars>>

\* The manager, its callers and the single-shot application.
coreVars == <<now, barcodeMap, call, nCalls, accepted, barcodeMapB, callB,
              clientVars, appVars>>

vars == <<coreVars, hookVars>>

\* The variables the application does not touch.
managerAux == <<call, nCalls, accepted, barcodeMapB, callB, clientVars,
                hookVars>>

\* null / undefined / void
Null == [isNull |-> TRUE]

NoCall == [op |-> "none", value |-> "", format |-> "", timestamp |-> 0,
           now |-> 0, before |-> <<>>, ret |-> Null]

\* A message variable that is null (messages are strings).
NullMsg == "null"

\* No detectFromImage call has been made in this capture.
NoDetect == [phase |-> "none", hasResolved |-> FALSE, pending |-> FALSE,
             timer |-> "none", deadline |-> 0, found |-> <<>>]

NoSettle == [kind |-> "none", data |-> <<>>, message |-> NullMsg]

\* useCamera: the initial cameraState.  stream is 0 for null; hasPermission
\* is "null", "true" or "false".
NoCamera == [stream |-> 0, error |-> NullMsg, isLoading |-> FALSE,
             hasPermission |-> "null"]

\* useBarcodeAPI: the initial detectionState.
NoDetection == [results |-> <<>>, isScanning |-> FALSE, error |-> NullMsg]

\* No scanImage call has been made.
NoApiCall == [phase |-> "none", ret |-> <<>>, failure |-> "none"]

(* ---------------------------------------------------------------------- *)
(* DeduplicationManager                                                    *)
(* ---------------------------------------------------------------------- *)

\* generateKey(value, format): `${format}:${value}`
generateKey(value, format) == format \o ":" \o value

\* Index of the entry stored under key in map, 0 if there is none.
MapIndex(map, key) ==
  IF \E i \in 1..Len(map) : map[i].key = key
  THEN CHOOSE i \in 1..Len(map) : map[i].key = key
  ELSE 0

\* Map.get(key): the entry, or Null (undefined).
MapGet(map, key) ==
  IF MapIndex(map, key) = 0 THEN Null ELSE map[MapIndex(map, key)]

\* Map.set(key, entry): an existing key keeps its position, a new key is
\* appended.
MapSet(map, key, entry) ==
  IF MapIndex(map, key) = 0
  THEN Append(map, entry)
  ELSE [map EXCEPT ![MapIndex(map, key)] = entry]

\* Variant: an entry still counts as live at the instant it expires.
IsLive_Inclusive(entry, t) == t <= entry.expiresAt

\* The test of line 33 / line 66: the entry has not expired at time t.
IsLive(entry, t) == t < entry.expiresAt

\* Variant: the duplicate branch forgets the count.
UpdateExisting_NoCount(existing, timestamp) ==
  [existing EXCEPT !.result.lastDetected = timestamp]

\* Variant: the duplicate branch forgets lastDetected.
UpdateExisting_KeepLast(existing, timestamp) ==
  [existing EXCEPT !.result.detectionCount = @ + 1]

\* The duplicate branch (lines 35-36): the stored result is updated in place.
UpdateExisting(existing, timestamp) ==
  [existing EXCEPT !.result.lastDetected = timestamp,
                   !.result.detectionCount = @ + 1]

\* The result object built at lines 41-48.
NewResult(key, value, format, timestamp) ==
  [id |-> key, value |-> value, format |-> format,
   firstDetected |-> timestamp, lastDetected |-> timestamp,
   detectionCount |-> 1]

\* Variant: the window is counted from the detection's own timestamp.
NewExpiresAt_FromTimestamp(t, timestamp) == timestamp + DUPLICATE_WINDOW_MS

\* The expiry stored with a new entry (line 52).
NewExpiresAt(t, timestamp) == t + DUPLICATE_WINDOW_MS

\* Variant: an expired entry is revived with its old firstDetected and count.
DoAddOrUpdate_Resurrect(map, value, format, timestamp, t) ==
  LET key == generateKey(value, format)
      existing == MapGet(map, key)
  IN IF existing # Null /\ IsLive(existing, t)
     THEN [map |-> MapSet(map, key, UpdateExisting(existing, timestamp)),
           ret |-> Null]
     ELSE LET result ==
                IF existing # Null
                THEN UpdateExisting(existing, timestamp).result
                ELSE NewResult(key, value, format, timestamp)
          IN [map |-> MapSet(map, key,
                             [key |-> key, result |-> result,
                              expiresAt |-> NewExpiresAt(t, timestamp)]),
              ret |-> result]

\* addOrUpdate as a function of the map and the clock: the map after the
\* call and the value returned.
\* Variant: addOrUpdate first evicts every expired entry.
DoAddOrUpdate_Evicting(map, value, format, timestamp, t) ==
  LET live == SelectSeq(map, LAMBDA e : IsLive(e, t))
      key == generateKey(value, format)
      existing == MapGet(live, key)
  IN IF existing # Null
     THEN [map |-> MapSet(live, key, UpdateExisting(existing, timestamp)),
           ret |-> Null]
     ELSE LET result == NewResult(key, value, format, timestamp)
          IN [map |-> MapSet(live, key,
                             [key |-> key, result |-> result,
                              expiresAt |-> NewExpiresAt(t, timestamp)]),
              ret |-> result]

DoAddOrUpdate(map, value, format, timestamp, t) ==
  LET key == generateKey(value, format)
      existing == MapGet(map, key)
  IN IF existing # Null /\ IsLive(existing, t)
     THEN [map |-> MapSet(map, key, UpdateExisting(existing, timestamp)),
           ret |-> Null]
     ELSE LET result == NewResult(key, value, format, timestamp)
          IN [map |-> MapSet(map, key,
                             [key |-> key, result |-> result,
                              expiresAt |-> NewExpiresAt(t, timestamp)]),
              ret |-> result]

\* The entries getResults keeps (line 66), in iteration order.
LiveEntries(map, t) == SelectSeq(map, LAMBDA e : IsLive(e, t))

\* Variant: the comparator's operands are swapped (ascending order).
CompareFirstDetected_Ascending(a, b) == a.firstDetected - b.firstDetected

\* The comparator of line 73: negative when a is to come before b.
CompareFirstDetected(a, b) == b.firstDetected - a.firstDetected

\* Insert r into the sorted sequence s behind every element it does not
\* strictly precede (Array.prototype.sort is stable).
RECURSIVE InsertSorted(_, _)
InsertSorted(s, r) ==
  IF s = <<>> THEN <<r>>
  ELSE IF CompareFirstDetected(r, Head(s)) < 0
       THEN <<r>> \o s
       ELSE <<Head(s)>> \o InsertSorted(Tail(s), r)

\* results.sort((a, b) => b.firstDetected - a.firstDetected)
RECURSIVE SortResults(_)
SortResults(s) ==
  IF s = <<>> THEN <<>>
  ELSE InsertSorted(SortResults(SubSeq(s, 1, Len(s) - 1)), s[Len(s)])

\* Variant: expired entries are skipped but not deleted.
DoGetResults_NoEvict(map, t) ==
  LET live == LiveEntries(map, t)
  IN [map |-> map,
      ret |-> SortResults([i \in 1..Len(live) |-> live[i].result])]

\* getResults as a function of the map and the clock.
DoGetResults(map, t) ==
  LET live == LiveEntries(map, t)
  IN [map |-> live,
      ret |-> SortResults([i \in 1..Len(live) |-> live[i].result])]

\* Variant: clear() leaves the store as it is.
DoClear_Keep(map) == map

\* Variant: clear() deletes only the oldest key.
DoClear_OnlyFirst(map) == IF map = <<>> THEN <<>> ELSE Tail(map)

\* clear(): Map.clear()
DoClear(map) == <<>>

(* ---------------------------------------------------------------------- *)
(* Actions                                                                 *)
(* ---------------------------------------------------------------------- *)

\* Every key the calls of the model can produce.
AllKeys == {generateKey(v, f) : v \in Values, f \in Formats}

\* The keys stored in map.
StoredKeys(map) == {map[i].key : i \in 1..Len(map)}

\* Bookkeeping of `accepted`: an addOrUpdate that finds the key absent or its
\* entry expired (read directly off the stored expiry) starts the count at 1,
\* any other adds 1; a key whose entry is removed goes back to 0.
AcceptedAfterAdd(map, value, format, t) ==
  LET key == generateKey(value, format)
  IN [accepted EXCEPT ![key] =
        IF key \in StoredKeys(map) /\ t < MapGet(map, key).expiresAt
        THEN @ + 1 ELSE 1]

AcceptedOfStored(map) ==
  [k \in AllKeys |-> IF k \in StoredKeys(map) THEN accepted[k] ELSE 0]

Init ==
  /\ now = 0
  /\ barcodeMap = <<>>
  /\ call = NoCall
  /\ nCalls = 0
  /\ accepted = [k \in AllKeys |-> 0]
  /\ barcodeMapB = <<>>
  /\ callB = NoCall
  /\ held = Null
  /\ notified = [k \in AllKeys |-> <<>>]
  /\ scanState = "idle"
  /\ errorMessage = NullMsg
  /\ cameraEnabled = TRUE
  /\ stream = FALSE
  /\ results = <<>>
  /\ isScanning = FALSE
  /\ error = NullMsg
  /\ capturePc = "none"
  /\ detect = NoDetect
  /\ settle = NoSettle
  /\ prior = NoDetect
  /\ camSupported = "unknown"
  /\ camEnabled = FALSE
  /\ camMounted = TRUE
  /\ cameraState = NoCamera
  /\ streamRef = 0
  /\ inits = <<>>
  /\ liveStreams = {}
  /\ retryTimer = FALSE
  /\ contEnabled = FALSE
  /\ scheduled = FALSE
  /\ frameCount = 0
  /\ lastAttempt = -1
  /\ prevAttempt = -1
  /\ inFlight = FALSE
  /\ running = 0
  /\ attempts = 0
  /\ tickLog = <<>>
  /\ apiState = NoDetection
  /\ apiCall = NoApiCall

\* Wall-clock time passes between two calls.
Tick ==
  /\ \E d \in TickSteps : now + d <= MaxNow /\ now' = now + d
  /\ UNCHANGED <<barcodeMap, call, nCalls, accepted, barcodeMapB, callB>>
  /\ UNCHANGED <<clientVars, appVars, hookVars>>

CallRecord(op, value, format, timestamp, before, ret) ==
  [op |-> op, value |-> value, format |-> format, timestamp |-> timestamp,
   now |-> now, before |-> before, ret |-> ret]

addOrUpdate(value, format, timestamp) ==
  /\ nCalls < MaxCalls
  /\ LET r == DoAddOrUpdate(barcodeMap, value, format, timestamp, now)
     IN /\ barcodeMap' = r.map
        /\ call' = CallRecord("addOrUpdate", value, format, timestamp,
                              barcodeMap, r.ret)
  /\ nCalls' = nCalls + 1
  /\ accepted' = AcceptedAfterAdd(barcodeMap, value, format, now)
  /\ UNCHANGED <<now, barcodeMapB, callB>>
  /\ UNCHANGED <<clientVars, appVars, hookVars>>

getResults ==
  /\ LET r == DoGetResults(barcodeMap, now)
     IN /\ barcodeMap' = r.map
        /\ call' = CallRecord("getResults", "", "", 0, barcodeMap, r.ret)
        /\ accepted' = AcceptedOfStored(r.map)
  /\ UNCHANGED <<now, nCalls, barcodeMapB, callB>>
  /\ UNCHANGED <<clientVars, appVars, hookVars>>

clear ==
  /\ barcodeMap' = DoClear(barcodeMap)
  /\ call' = CallRecord("clear", "", "", 0, barcodeMap, Null)
  /\ accepted' = AcceptedOfStored(<<>>)
  /\ UNCHANGED <<now, nCalls, barcodeMapB, callB>>
  /\ UNCHANGED <<clientVars, appVars, hookVars>>

\* The timestamps a caller may pass at the current wall-clock time.
Timestamps == {now + d : d \in TimestampOffsets}

AddOrUpdateCall ==
  \E value \in Values, format \in Formats, timestamp \in Timestamps :
    addOrUpdate(value, format, timestamp)

Next ==
  \/ Tick
  \/ AddOrUpdateCall
  \/ getResults
  \/ clear

Spec == Init /\ [][Next]_vars

(* ---------------------------------------------------------------------- *)
(* Two runs: the same calls at the same wall-clock times on two managers,  *)
(* each call with a timestamp argument per run.                            *)
(* ---------------------------------------------------------------------- *)

TwinAddOrUpdate(value, format, timestamp, timestampB) ==
  /\ nCalls < MaxCalls
  /\ LET r == DoAddOrUpdate(barcodeMap, value, format, timestamp, now)
         rB == DoAddOrUpdate(barcodeMapB, value, format, timestampB, now)
     IN /\ barcodeMap' = r.map
        /\ call' = CallRecord("addOrUpdate", value, format, timestamp,
                              <<>>, r.ret)
        /\ barcodeMapB' = rB.map
        /\ callB' = CallRecord("addOrUpdate", value, format, timestampB,
                               <<>>, rB.ret)
  /\ nCalls' = nCalls + 1
  /\ accepted' = AcceptedAfterAdd(barcodeMap, value, format, now)
  /\ UNCHANGED now
  /\ UNCHANGED <<clientVars, appVars, hookVars>>

TwinGetResults ==
  /\ LET r == DoGetResults(barcodeMap, now)
         rB == DoGetResults(barcodeMapB, now)
     IN /\ barcodeMap' = r.map
        /\ call' = CallRecord("getResults", "", "", 0, <<>>, r.ret)
        /\ barcodeMapB' = rB.map
        /\ callB' = CallRecord("getResults", "", "", 0, <<>>, rB.ret)
        /\ accepted' = AcceptedOfStored(r.map)
  /\ UNCHANGED <<now, nCalls>>
  /\ UNCHANGED <<clientVars, appVars, hookVars>>

TwinClear ==
  /\ barcodeMap' = DoClear(barcodeMap)
  /\ call' = CallRecord("clear", "", "", 0, <<>>, Null)
  /\ barcodeMapB' = DoClear(barcodeMapB)
  /\ callB' = CallRecord("clear", "", "", 0, <<>>, Null)
  /\ accepted' = AcceptedOfStored(<<>>)
  /\ UNCHANGED <<now, nCalls>>
  /\ UNCHANGED <<clientVars, appVars, hookVars>>

\* The first run passes Date.now(), as the callers in the repository do; the
\* second run passes any timestamp.
TwinAddOrUpdateCall ==
  \E value \in Values, format \in Formats, timestampB \in Timestamps :
    TwinAddOrUpdate(value, format, now, timestampB)

NextTwin ==
  \/ Tick
  \/ TwinAddOrUpdateCall
  \/ TwinGetResults
  \/ TwinClear

SpecTwin == Init /\ [][NextTwin]_vars

(* ---------------------------------------------------------------------- *)
(* A caller of the manager.  It may keep the object a call returned        *)
(* (addOrUpdate returns `result`, the object it stores in the map, line    *)
(* 55; getResults pushes `entry.result`, the stored object itself, line    *)
(* 67), and it is notified by every non-null return of addOrUpdate.        *)
(* `held` records the object kept: the key it was stored under, whether    *)
(* the map still stores that very object (attached), its fields when it    *)
(* was handed out (snapshot) and its fields now (value).                   *)
(* ---------------------------------------------------------------------- *)

\* The caller keeps the object `result`, which the map stores under its id.
Keep(result) ==
  [key |-> result.id, attached |-> TRUE, snapshot |-> result, value |-> result]

\* The held object after addOrUpdate(value, format, ...) returned r: the
\* duplicate branch writes to the stored object (lines 35-36), which is the
\* held one when it is still attached under that key; Map.set (line 50)
\* puts a new object under the key and the held one is no longer stored.
HeldAfterAdd(h, value, format, r) ==
  LET key == generateKey(value, format)
  IN IF h = Null \/ h.key # key \/ ~h.attached THEN h
     ELSE IF r.ret = Null
          THEN [h EXCEPT !.value = MapGet(r.map, key).result]
          ELSE [h EXCEPT !.attached = FALSE]

\* The held object after entries were deleted (lines 69, 80): it keeps its
\* fields and is no longer stored when its key is gone from map.
HeldAfterDelete(h, map) ==
  IF h = Null \/ h.key \in StoredKeys(map) THEN h
  ELSE [h EXCEPT !.attached = FALSE]

\* The times of the non-null returns after addOrUpdate returned ret at t.
NotifiedAfterAdd(value, format, ret, t) ==
  IF ret = Null THEN notified
  ELSE [notified EXCEPT ![generateKey(value, format)] = Append(@, t)]

ClientAddOrUpdate(value, format, timestamp, keep) ==
  /\ nCalls < MaxCalls
  /\ LET r == DoAddOrUpdate(barcodeMap, value, format, timestamp, now)
     IN /\ barcodeMap' = r.map
        /\ call' = CallRecord("addOrUpdate", value, format, timestamp,
                              <<>>, r.ret)
        /\ held' = IF keep /\ r.ret # Null THEN Keep(r.ret)
                   ELSE HeldAfterAdd(held, value, format, r)
        /\ notified' = NotifiedAfterAdd(value, format, r.ret, now)
  /\ nCalls' = nCalls + 1
  /\ accepted' = AcceptedAfterAdd(barcodeMap, value, format, now)
  /\ UNCHANGED <<now, barcodeMapB, callB>>
  /\ UNCHANGED <<appVars, hookVars>>

ClientGetResults(keep) ==
  /\ LET r == DoGetResults(barcodeMap, now)
     IN /\ barcodeMap' = r.map
        /\ call' = CallRecord("getResults", "", "", 0, <<>>, r.ret)
        /\ accepted' = AcceptedOfStored(r.map)
        /\ held' = IF keep /\ r.ret # <<>> THEN Keep(r.ret[1])
                   ELSE HeldAfterDelete(held, r.map)
  /\ UNCHANGED <<now, nCalls, barcodeMapB, callB, notified>>
  /\ UNCHANGED <<appVars, hookVars>>

ClientClear ==
  /\ barcodeMap' = DoClear(barcodeMap)
  /\ call' = CallRecord("clear", "", "", 0, <<>>, Null)
  /\ accepted' = AcceptedOfStored(<<>>)
  /\ held' = HeldAfterDelete(held, DoClear(barcodeMap))
  /\ notified' = [k \in AllKeys |-> <<>>]
  /\ UNCHANGED <<now, nCalls, barcodeMapB, callB>>
  /\ UNCHANGED <<appVars, hookVars>>

\* The caller passes Date.now() as the timestamp, as the callers in the
\* repository do.
ClientAddOrUpdateCall ==
  \E value \in Values, format \in Formats, keep \in BOOLEAN :
    ClientAddOrUpdate(value, format, now, keep)

ClientGetResultsCall == \E keep \in BOOLEAN : ClientGetResults(keep)

NextClient ==
  \/ Tick
  \/ ClientAddOrUpdateCall
  \/ ClientGetResultsCall
  \/ ClientClear

SpecClient == Init /\ [][NextClient]_vars

(* ---------------------------------------------------------------------- *)
(* Single-shot scanning: App (first component of App.tsx) with             *)
(* useBarcodeDetection.detectFromImage.  An event handler runs to          *)
(* completion; the continuation after an `await` runs as soon as the       *)
(* awaited promise settles, so it is part of the action that settles it.   *)
(* Only handleCapturePhoto is split in two: between its setScanState       *)
(* ('processing') and the outcome of captureAsDataUrl.                     *)
(* ---------------------------------------------------------------------- *)

MsgCaptureFailed == "Failed to capture photo"
MsgNoContext == "Could not get canvas context"
MsgLoadFailed == "Failed to load image"
MsgTimeout == "Detection timeout (5000ms)"
MsgNoBarcodes == "No barcodes found in this image. Try again."
MsgDetectionFailed == "Detection failed"

FinalStates == {"completed", "no-result", "error"}

\* Variant: the caught error's message is dropped.
CaughtMessage_Null(e) == NullMsg

\* error instanceof Error ? error.message : 'Detection failed'
CaughtMessage(e) == IF e.isError THEN e.text ELSE MsgDetectionFailed

\* error instanceof Error ? error : new Error(String(error))
AsError(e) == IF e.isError THEN e ELSE [isError |-> TRUE, text |-> e.text]

\* Variant: the capture button is on screen whenever no scan is running.
CaptureButtonShown_WhenNotScanning == ~isScanning

\* The capture button is rendered.
CaptureButtonShown == scanState = "idle" /\ stream /\ ~isScanning

\* Variant: the scan-another button is on screen during processing too.
CaptureAnotherShown_WhileProcessing == scanState # "idle"

\* The scan-another button is rendered.
CaptureAnotherShown == scanState \in FinalStates

\* The clear button of the result list is rendered.
ClearButtonShown == Len(results) > 0

\* The argument of useCamera.
CameraWanted(enabled, state) == enabled /\ state = "idle"

\* Variant: disabling the hook keeps the stream.
StreamAfter_Kept(wanted) == stream

\* cameraState.stream after the effect of useCamera has run for `wanted`:
\* a release sets it to null, an acquisition is a later event.
StreamAfter(wanted) == IF wanted THEN stream ELSE FALSE

\* resolveOnce / rejectOnce on the closure of the call: the first of them
\* sets hasResolved and clears the timeout.
SettleOnce(d) ==
  IF d.hasResolved THEN d
  ELSE [d EXCEPT !.hasResolved = TRUE,
                 !.timer = IF @ = "armed" THEN "cleared" ELSE @]

\* The object pushed for a QR code found by jsQR.
QrDetection(code) == [code |-> code, format |-> "QR_CODE"]

\* The object pushed for a barcode found by BarcodeDetector.
Detection1D(barcode) ==
  [code |-> barcode.rawValue,
   format |-> IF barcode.format = "" THEN "1D_BARCODE" ELSE barcode.format]

\* result.code || result (an object used as a string), result.format ||
\* 'unknown'
DetectedValue(result) ==
  IF result.code = "" THEN "[object Object]" ELSE result.code

DetectedFormat(result) ==
  IF result.format = "" THEN "unknown" ELSE result.format

\* The loop over detectedBarcodes: one addOrUpdate per detection, each with
\* Date.now().
RECURSIVE AddAll(_, _, _)
AddAll(map, data, t) ==
  IF data = <<>> THEN map
  ELSE AddAll(DoAddOrUpdate(map, DetectedValue(Head(data)),
                            DetectedFormat(Head(data)), t, t).map,
              Tail(data), t)

\* finalResults of a call whose race resolved with `data`, and the map left.
FinalResults(map, data, t) ==
  IF Len(data) > 0 THEN DoGetResults(AddAll(map, data, t), t)
  ELSE [map |-> map, ret |-> <<>>]

\* Variant: every decode that returns ends in completed.
ScanStateAfter_AlwaysCompleted(detectedResults) == "completed"

\* The state handleCapturePhoto sets from what detectFromImage returned.
ScanStateAfter(detectedResults) ==
  IF Len(detectedResults) > 0 THEN "completed" ELSE "no-result"

\* The race resolved with `data`: the rest of detectFromImage, then the rest
\* of handleCapturePhoto.
SettleResolved(data) ==
  LET fin == FinalResults(barcodeMap, data, now)
  IN /\ barcodeMap' = fin.map
     /\ results' = fin.ret
     /\ isScanning' = FALSE
     /\ error' = IF Len(data) > 0 THEN NullMsg ELSE MsgNoBarcodes
     /\ scanState' = ScanStateAfter(fin.ret)
     /\ settle' = [kind |-> "resolved", data |-> data, message |-> NullMsg]

\* Variant: the catch of detectFromImage leaves isScanning set.
SettleRejected_StillScanning(kind, e) ==
  /\ barcodeMap' = barcodeMap
  /\ results' = <<>>
  /\ isScanning' = TRUE
  /\ error' = CaughtMessage(e)
  /\ scanState' = ScanStateAfter(<<>>)
  /\ settle' = [kind |-> kind, data |-> <<>>, message |-> e.text]

\* The race rejected with an Error: the catch of detectFromImage, which
\* returns [], then the rest of handleCapturePhoto.
SettleRejected(kind, e) ==
  /\ barcodeMap' = barcodeMap
  /\ results' = <<>>
  /\ isScanning' = FALSE
  /\ error' = CaughtMessage(e)
  /\ scanState' = ScanStateAfter(<<>>)
  /\ settle' = [kind |-> kind, data |-> <<>>, message |-> e.text]

\* Variant: a promise that has settled can be settled again.
RaceOpen_Always(d) == TRUE

\* The race of the call has not settled: only the first resolve or reject
\* of a promise has an effect.
RaceOpen(d) == d.pending

\* A callback of the decode or the timeout of the call can still run.
EventsToCome(d) == d.phase \in {"loading", "detecting1D"} \/ d.timer = "armed"

\* A callback of the decode that calls resolveOnce(data) (reject = FALSE) or
\* rejectOnce(e) (reject = TRUE) and ends the decode.
DecodeEnds(reject, data, e) ==
  /\ detect' = [SettleOnce(detect) EXCEPT !.phase = "finished",
                                          !.pending = FALSE,
                                          !.found = data]
  /\ IF RaceOpen(detect) /\ ~detect.hasResolved
     THEN IF reject THEN SettleRejected("rejected", e)
          ELSE SettleResolved(data)
     ELSE UNCHANGED <<barcodeMap, results, isScanning, error, scanState,
                      settle>>

\* Wall-clock time passes between two events.
AppTick ==
  /\ capturePc = "none"
  /\ \E d \in AppTickSteps : now + d <= MaxAppNow /\ now' = now + d
  /\ UNCHANGED <<barcodeMap, managerAux, appVars>>

\* useCamera acquires the stream it was asked for.
CameraStreamAcquired ==
  /\ capturePc = "none"
  /\ CameraWanted(cameraEnabled, scanState)
  /\ ~stream
  /\ stream' = TRUE
  /\ UNCHANGED <<now, barcodeMap, managerAux, prior, scanState, errorMessage,
                 cameraEnabled, results, isScanning, error, capturePc,
                 detect, settle>>

\* handleCapturePhoto up to the call of captureAsDataUrl.  A capture is
\* started only while its timeout can still elapse within the run.
handleCapturePhoto ==
  /\ capturePc = "none"
  /\ CaptureButtonShown
  /\ now + DETECTION_TIMEOUT <= MaxAppNow
  /\ scanState' = "processing"
  /\ errorMessage' = NullMsg
  /\ capturePc' = "capturing"
  /\ detect' = NoDetect
  /\ settle' = NoSettle
  /\ prior' = IF EventsToCome(detect) THEN detect
            ELSE IF EventsToCome(prior) THEN prior ELSE NoDetect
  /\ UNCHANGED <<now, barcodeMap, managerAux, cameraEnabled, stream,
                 results, isScanning, error>>

\* captureAsDataUrl returns null: the handler ends in error.
CaptureReturnsNull ==
  /\ capturePc = "capturing"
  /\ scanState' = "error"
  /\ errorMessage' = MsgCaptureFailed
  /\ capturePc' = "none"
  /\ stream' = StreamAfter(CameraWanted(cameraEnabled, "error"))
  /\ UNCHANGED <<now, barcodeMap, managerAux, prior, cameraEnabled, results,
                 isScanning, error, detect, settle>>

\* captureAsDataUrl throws: the catch of handleCapturePhoto.
CaptureThrows ==
  /\ capturePc = "capturing"
  /\ \E e \in Thrown :
       /\ scanState' = "error"
       /\ errorMessage' = CaughtMessage(e)
  /\ capturePc' = "none"
  /\ stream' = StreamAfter(CameraWanted(cameraEnabled, "error"))
  /\ UNCHANGED <<now, barcodeMap, managerAux, prior, cameraEnabled, results,
                 isScanning, error, detect, settle>>

\* captureAsDataUrl returns a data URL and detectFromImage starts: state
\* reset, store cleared, image load started, timeout armed.
DetectStarts ==
  /\ capturePc = "capturing"
  /\ capturePc' = "none"
  /\ isScanning' = TRUE
  /\ error' = NullMsg
  /\ barcodeMap' = DoClear(barcodeMap)
  /\ detect' = [phase |-> "loading", hasResolved |-> FALSE,
                pending |-> TRUE, timer |-> "armed",
                deadline |-> now + DETECTION_TIMEOUT, found |-> <<>>]
  /\ stream' = StreamAfter(CameraWanted(cameraEnabled, "processing"))
  /\ UNCHANGED <<now, managerAux, prior, scanState, errorMessage, cameraEnabled,
                 results, settle>>

\* As DetectStarts, but creating the image throws inside the executor:
\* rejectOnce runs while timeoutId is still null, the timeout is armed after
\* it, and the race rejects at once.
DetectInitThrows ==
  /\ capturePc = "capturing"
  /\ capturePc' = "none"
  /\ \E e \in Thrown :
       /\ barcodeMap' = DoClear(barcodeMap)
       /\ results' = <<>>
       /\ isScanning' = FALSE
       /\ error' = CaughtMessage(AsError(e))
       /\ scanState' = ScanStateAfter(<<>>)
       /\ settle' = [kind |-> "rejected", data |-> <<>>,
                     message |-> AsError(e).text]
  /\ detect' = [phase |-> "finished", hasResolved |-> TRUE,
                pending |-> FALSE, timer |-> "armed",
                deadline |-> now + DETECTION_TIMEOUT, found |-> <<>>]
  /\ stream' = StreamAfter(CameraWanted(cameraEnabled, scanState'))
  /\ UNCHANGED <<now, managerAux, prior, errorMessage, cameraEnabled>>

\* img.onerror
ImgOnError ==
  /\ capturePc = "none"
  /\ detect.phase = "loading"
  /\ DecodeEnds(TRUE, <<>>, [isError |-> TRUE, text |-> MsgLoadFailed])
  /\ UNCHANGED <<now, managerAux, prior, errorMessage, cameraEnabled, stream,
                 capturePc>>

\* img.onload when the canvas has no 2d context.
ImgOnLoadNoContext ==
  /\ capturePc = "none"
  /\ detect.phase = "loading"
  /\ DecodeEnds(TRUE, <<>>, [isError |-> TRUE, text |-> MsgNoContext])
  /\ UNCHANGED <<now, managerAux, prior, errorMessage, cameraEnabled, stream,
                 capturePc>>

\* img.onload when drawing, reading the pixels or jsQR throws.
ImgOnLoadThrows ==
  /\ capturePc = "none"
  /\ detect.phase = "loading"
  /\ \E e \in Thrown : DecodeEnds(TRUE, <<>>, AsError(e))
  /\ UNCHANGED <<now, managerAux, prior, errorMessage, cameraEnabled, stream,
                 capturePc>>

\* What jsQR contributes to the results of the decode.
QrFound(qr) == IF qr = "none" THEN <<>> ELSE <<QrDetection(qr)>>

\* img.onload when jsQR ran and BarcodeDetector cannot be constructed.
ImgOnLoadNoDetector ==
  /\ capturePc = "none"
  /\ detect.phase = "loading"
  /\ \E qr \in QrOutcomes : DecodeEnds(FALSE, QrFound(qr), Null)
  /\ UNCHANGED <<now, managerAux, prior, errorMessage, cameraEnabled, stream,
                 capturePc>>

\* img.onload when jsQR ran and the second image starts to load.
ImgOnLoad ==
  /\ capturePc = "none"
  /\ detect.phase = "loading"
  /\ \E qr \in QrOutcomes :
       detect' = [detect EXCEPT !.phase = "detecting1D",
                                !.found = QrFound(qr)]
  /\ UNCHANGED <<now, barcodeMap, managerAux, prior, scanState, errorMessage,
                 cameraEnabled, stream, results, isScanning, error,
                 capturePc, settle>>

\* img1D.onerror: the QR results stand.
Img1DOnError ==
  /\ capturePc = "none"
  /\ detect.phase = "detecting1D"
  /\ DecodeEnds(FALSE, detect.found, Null)
  /\ UNCHANGED <<now, managerAux, prior, errorMessage, cameraEnabled, stream,
                 capturePc>>

\* The barcodes of a detect() result, as the objects pushed for them.
RECURSIVE Detections(_)
Detections(barcodes) ==
  IF barcodes = <<>> THEN <<>>
  ELSE <<Detection1D(Head(barcodes))>> \o Detections(Tail(barcodes))

\* img1D.onload: detector.detect resolves with barcodes, or rejects and the
\* QR results stand.
Img1DOnLoad ==
  /\ capturePc = "none"
  /\ detect.phase = "detecting1D"
  /\ \E rejects \in BOOLEAN, barcodes \in Detections1D :
       /\ rejects => barcodes = <<>>
       /\ DecodeEnds(FALSE, detect.found \o Detections(barcodes), Null)
  /\ UNCHANGED <<now, managerAux, prior, errorMessage, cameraEnabled, stream,
                 capturePc>>

\* Variant: the timeout never becomes due.
TimerDue_Never(d, t) == FALSE

\* The timeout set by detectFromImage is armed and its delay has passed.
TimerDue(d, t) == d.timer = "armed" /\ t >= d.deadline

\* The timeout callback of detectFromImage runs and rejects its promise.
TimeoutFires ==
  /\ capturePc = "none"
  /\ TimerDue(detect, now)
  /\ detect' = [detect EXCEPT !.timer = "fired", !.pending = FALSE]
  /\ IF RaceOpen(detect)
     THEN SettleRejected("timeout", [isError |-> TRUE, text |-> MsgTimeout])
     ELSE UNCHANGED <<barcodeMap, results, isScanning, error, scanState,
                      settle>>
  /\ UNCHANGED <<now, managerAux, prior, errorMessage, cameraEnabled, stream,
                 capturePc>>

\* A callback of the decode of the earlier call: img.onload starting the
\* second image, or a callback that calls resolveOnce / rejectOnce on that
\* call's closure.
PriorDecodeCallback ==
  /\ capturePc = "none"
  /\ prior.phase \in {"loading", "detecting1D"}
  /\ \E ends \in BOOLEAN, reject \in BOOLEAN :
       /\ ~ends => prior.phase = "loading" /\ ~reject
       /\ prior' = IF ends
                   THEN [SettleOnce(prior) EXCEPT !.phase = "finished",
                                                  !.pending = FALSE]
                   ELSE [prior EXCEPT !.phase = "detecting1D"]
       /\ IF ends /\ RaceOpen(prior) /\ ~prior.hasResolved
          THEN IF reject
               THEN SettleRejected("rejected",
                                   [isError |-> TRUE, text |-> MsgLoadFailed])
               ELSE SettleResolved(prior.found)
          ELSE UNCHANGED <<barcodeMap, results, isScanning, error,
                           scanState, settle>>
  /\ UNCHANGED <<now, managerAux, errorMessage, cameraEnabled, stream,
                 capturePc, detect>>

\* The timeout callback of the earlier call.
PriorTimeoutFires ==
  /\ capturePc = "none"
  /\ TimerDue(prior, now)
  /\ prior' = [prior EXCEPT !.timer = "fired", !.pending = FALSE]
  /\ IF RaceOpen(prior)
     THEN SettleRejected("timeout", [isError |-> TRUE, text |-> MsgTimeout])
     ELSE UNCHANGED <<barcodeMap, results, isScanning, error, scanState,
                      settle>>
  /\ UNCHANGED <<now, managerAux, errorMessage, cameraEnabled, stream,
                 capturePc, detect>>

\* Variant: clearResults empties the store but not the result list.
ClearResults_StoreOnly ==
  /\ barcodeMap' = DoClear(barcodeMap)
  /\ results' = results
  /\ error' = NullMsg

\* clearResults of the hook.
ClearResults ==
  /\ barcodeMap' = DoClear(barcodeMap)
  /\ results' = <<>>
  /\ error' = NullMsg

\* The scan-another button.  Callbacks and the timeout of the decode that
\* ended are not cancelled.
handleCaptureAnother ==
  /\ capturePc = "none"
  /\ CaptureAnotherShown
  /\ scanState' = "idle"
  /\ errorMessage' = NullMsg
  /\ ClearResults
  /\ settle' = NoSettle
  /\ stream' = StreamAfter(CameraWanted(cameraEnabled, "idle"))
  /\ UNCHANGED <<now, managerAux, prior, cameraEnabled, isScanning, capturePc,
                 detect>>

\* The camera toggle button.
handleToggleCamera ==
  /\ capturePc = "none"
  /\ cameraEnabled' = ~cameraEnabled
  /\ stream' = StreamAfter(CameraWanted(~cameraEnabled, scanState))
  /\ UNCHANGED <<now, barcodeMap, managerAux, prior, scanState, errorMessage,
                 results, isScanning, error, capturePc, detect, settle>>

\* The clear button of the result list (onClear = clearResults).
handleClearResults ==
  /\ capturePc = "none"
  /\ ClearButtonShown
  /\ ClearResults
  /\ UNCHANGED <<now, managerAux, prior, scanState, errorMessage, cameraEnabled,
                 stream, isScanning, capturePc, detect, settle>>

\* The synchronous rest of handleCapturePhoto.
CaptureContinues ==
  \/ CaptureReturnsNull
  \/ CaptureThrows
  \/ DetectStarts
  \/ DetectInitThrows

\* The callbacks of the decode started by detectFromImage.
DecodeCallback ==
  \/ ImgOnError
  \/ ImgOnLoadNoContext
  \/ ImgOnLoadThrows
  \/ ImgOnLoadNoDetector
  \/ ImgOnLoad
  \/ Img1DOnError
  \/ Img1DOnLoad

NextApp ==
  \/ AppTick
  \/ CameraStreamAcquired
  \/ handleCapturePhoto
  \/ CaptureContinues
  \/ DecodeCallback
  \/ TimeoutFires
  \/ PriorDecodeCallback
  \/ PriorTimeoutFires
  \/ handleCaptureAnother
  \/ handleToggleCamera
  \/ handleClearResults

SpecApp == Init /\ [][NextApp]_vars

\* Time passes, a due timeout callback runs and a started handler runs on;
\* nothing is assumed of the decoder's callbacks or of the user.
SpecAppLive ==
  /\ SpecApp
  /\ WF_vars(AppTick)
  /\ WF_vars(TimeoutFires)
  /\ WF_vars(PriorTimeoutFires)
  /\ WF_vars(CaptureContinues)

(* ---------------------------------------------------------------------- *)
(* The Quagga version of the hook (hooks/useBarcodeDetection.ts, first     *)
(* module of the file) under the same App.  Its detectFromImage awaits the *)
(* decode promise alone, without a timeout, and returns nothing.           *)
(* ---------------------------------------------------------------------- *)

\* What Quagga reports for a frame through onDetected: results with a
\* codeResult; the format may be empty.
QuaggaResult1 == [code |-> "a", format |-> "ean_13"]
QuaggaResult2 == [code |-> "b", format |-> ""]
QuaggaFrames == {<<>>, <<QuaggaResult1>>, <<QuaggaResult1, QuaggaResult1>>,
                 <<QuaggaResult1, QuaggaResult2>>}

\* The message of the TypeError of `detectedResults.length` when
\* detectFromImage returned undefined.
MsgUndefinedLength == "Cannot read properties of undefined (reading 'length')"

\* handleDetection: a result is pushed unless one with the same code and
\* format is there.
RECURSIVE QuaggaDetected(_, _)
QuaggaDetected(detected, reported) ==
  IF reported = <<>> THEN detected
  ELSE LET r == Head(reported)
           exists == \E i \in 1..Len(detected) :
                       detected[i].code = r.code
                       /\ detected[i].format = r.format
       IN QuaggaDetected(IF r.code = "" \/ exists THEN detected
                         ELSE Append(detected, r),
                         Tail(reported))

\* The time (ms) analyzeFrame waits before it resolves.
QUAGGA_ANALYSIS_DELAY == 300

\* The decode promise settled: the rest of detectFromImage, which returns
\* undefined, then the rest of handleCapturePhoto, whose
\* detectedResults.length throws.
QuaggaSettled(reject, data, e) ==
  LET fin == FinalResults(barcodeMap, data, now)
  IN /\ barcodeMap' = IF reject THEN barcodeMap ELSE fin.map
     /\ results' = IF reject THEN <<>> ELSE fin.ret
     /\ isScanning' = FALSE
     /\ error' = IF reject THEN CaughtMessage(e)
                 ELSE IF Len(data) > 0 THEN error ELSE MsgNoBarcodes
     /\ scanState' = "error"
     /\ errorMessage' = MsgUndefinedLength
     /\ settle' = [kind |-> IF reject THEN "rejected" ELSE "resolved",
                   data |-> data,
                   message |-> IF reject THEN e.text ELSE NullMsg]

\* captureAsDataUrl returns a data URL and detectFromImage starts: state
\* reset, store cleared, image load started.
QuaggaDetectStarts ==
  /\ capturePc = "capturing"
  /\ capturePc' = "none"
  /\ isScanning' = TRUE
  /\ error' = NullMsg
  /\ barcodeMap' = DoClear(barcodeMap)
  /\ detect' = [phase |-> "loading", hasResolved |-> FALSE,
                pending |-> TRUE, timer |-> "none", deadline |-> 0,
                found |-> <<>>]
  /\ stream' = StreamAfter(CameraWanted(cameraEnabled, "processing"))
  /\ UNCHANGED <<now, managerAux, prior, scanState, errorMessage, cameraEnabled,
                 results, settle>>

\* A callback that rejects the decode promise with e.
QuaggaRejects(e) ==
  /\ detect' = [detect EXCEPT !.phase = "finished", !.pending = FALSE,
                              !.hasResolved = TRUE]
  /\ QuaggaSettled(TRUE, <<>>, e)
  /\ UNCHANGED <<now, managerAux, prior, cameraEnabled, stream, capturePc>>

\* img.onerror, img.onload without a 2d context, img.onload when drawImage
\* or Quagga.init throws.
QuaggaImgFails ==
  /\ capturePc = "none"
  /\ detect.phase = "loading"
  /\ \E e \in Thrown \cup {[isError |-> TRUE, text |-> MsgLoadFailed],
                           [isError |-> TRUE, text |-> MsgNoContext]} :
       QuaggaRejects(e)

\* img.onload: Quagga.init is called.
QuaggaImgOnLoad ==
  /\ capturePc = "none"
  /\ detect.phase = "loading"
  /\ detect' = [detect EXCEPT !.phase = "initializing"]
  /\ UNCHANGED <<now, barcodeMap, managerAux, prior, scanState, errorMessage,
                 cameraEnabled, stream, results, isScanning, error,
                 capturePc, settle>>

\* The callback of Quagga.init is called with an error, or processFrame
\* throws in analyzeFrame.
QuaggaInitFails ==
  /\ capturePc = "none"
  /\ detect.phase = "initializing"
  /\ \E e \in Thrown : QuaggaRejects(e)

\* The callback of Quagga.init is called without an error: the frame is
\* processed and the timer of analyzeFrame is set.  It is called only while
\* that timer can still elapse within the run.
QuaggaInitCallback ==
  /\ capturePc = "none"
  /\ detect.phase = "initializing"
  /\ now + QUAGGA_ANALYSIS_DELAY <= MaxAppNow
  /\ \E reported \in QuaggaFrames :
       detect' = [detect EXCEPT !.phase = "analyzing",
                                !.found = QuaggaDetected(<<>>, reported),
                                !.timer = "armed",
                                !.deadline = now + QUAGGA_ANALYSIS_DELAY]
  /\ UNCHANGED <<now, barcodeMap, managerAux, prior, scanState, errorMessage,
                 cameraEnabled, stream, results, isScanning, error,
                 capturePc, settle>>

\* The timer of analyzeFrame: Quagga.stop(), resolve(detectedBarcodes).
QuaggaAnalysisTimer ==
  /\ capturePc = "none"
  /\ detect.phase = "analyzing"
  /\ TimerDue(detect, now)
  /\ detect' = [detect EXCEPT !.phase = "finished", !.pending = FALSE,
                              !.hasResolved = TRUE, !.timer = "fired"]
  /\ QuaggaSettled(FALSE, detect.found, Null)
  /\ UNCHANGED <<now, managerAux, prior, cameraEnabled, stream, capturePc>>

\* The synchronous rest of handleCapturePhoto.
QuaggaCaptureContinues ==
  \/ CaptureReturnsNull
  \/ CaptureThrows
  \/ QuaggaDetectStarts

NextQuagga ==
  \/ AppTick
  \/ CameraStreamAcquired
  \/ handleCapturePhoto
  \/ QuaggaCaptureContinues
  \/ QuaggaImgFails
  \/ QuaggaImgOnLoad
  \/ QuaggaInitFails
  \/ QuaggaInitCallback
  \/ QuaggaAnalysisTimer
  \/ handleCaptureAnother
  \/ handleToggleCamera
  \/ handleClearResults

SpecQuagga == Init /\ [][NextQuagga]_vars

\* Time passes, a due timer callback runs and a started handler runs on;
\* nothing is assumed of the image's or Quagga's callbacks or of the user.
SpecQuaggaLive ==
  /\ SpecQuagga
  /\ WF_vars(AppTick)
  /\ WF_vars(QuaggaAnalysisTimer)
  /\ WF_vars(QuaggaCaptureContinues)

(* ---------------------------------------------------------------------- *)
(* useCamera.  The effect runs when `enabled` changes; each run with       *)
(* enabled = true starts one initializeCamera call with its own `mounted`  *)
(* flag, and its cleanup runs before the next effect and at unmount.  A    *)
(* continuation after an await is part of the event that settles it.       *)
(* ---------------------------------------------------------------------- *)

MsgNotSupported == "Camera access not supported in your browser"
MsgPermissionDenied == "Camera permission denied"
MsgVideoFailed == "Video element failed to load"
MsgCameraFailed == "Failed to access camera"

\* What getUserMedia rejects with: a DOMException with a name and a message.
MediaErrors == {[name |-> "NotAllowedError", text |-> "Permission denied"],
                [name |-> "NotFoundError", text |-> "Requested device not found"]}

\* The message the catch of initializeCamera stores for a DOMException.
CameraErrorMessage(e) ==
  IF e.name = "NotAllowedError" THEN MsgPermissionDenied ELSE e.text

\* Variant: track.stop() has no effect.
StopTracks_Nothing(live, ref) == live

\* streamRef.current.getTracks().forEach(track => track.stop()), guarded by
\* `if (streamRef.current)`.
StopTracks(live, ref) == live \ {ref}

\* Variant: a call whose effect was cleaned up still stores what it found.
StillMounted_Always(init) == TRUE

\* The `mounted` flag an initializeCamera call tests after each await and in
\* its catch.
StillMounted(init) == init.mounted

\* An initializeCamera call that has just started.
NewInit == [pc |-> "delay", mounted |-> TRUE, outcome |-> "none"]

\* The cleanup of an effect that ran with enabled = true: its call's flag is
\* cleared.  Only the last call can still have it set.
Unmounted(calls) ==
  [i \in 1..Len(calls) |-> [calls[i] EXCEPT !.mounted = FALSE]]

\* The call i of `calls` has ended with `outcome`.
Ended(calls, i, outcome) ==
  [calls EXCEPT ![i].pc = "done", ![i].outcome = outcome]

\* Variant: a successful initializeCamera leaves isLoading set.
CameraReady_StillLoading(s) ==
  [cameraState EXCEPT !.stream = s, !.hasPermission = "true"]

\* cameraState after initializeCamera succeeded with stream s.
CameraReady(s) ==
  [cameraState EXCEPT !.stream = s, !.hasPermission = "true",
                      !.isLoading = FALSE]

\* cameraState after the catch of initializeCamera stored `message`.
CameraFailed(state, message) ==
  [state EXCEPT !.hasPermission = "false", !.error = message,
                !.isLoading = FALSE]

\* The effect with enabled = true: initializeCamera up to its first await.
EffectEnabled ==
  /\ Len(inits) < MaxInits
  /\ camEnabled' = TRUE
  /\ \E supported \in {"yes", "no"} :
       /\ camSupported \in {"unknown", supported}
       /\ camSupported' = supported
       /\ IF supported = "no"
          THEN /\ cameraState' =
                    CameraFailed([cameraState EXCEPT !.isLoading = TRUE,
                                                     !.error = NullMsg],
                                 MsgNotSupported)
               /\ inits' = Append(inits, [pc |-> "done", mounted |-> TRUE,
                                          outcome |-> "error"])
               /\ UNCHANGED <<streamRef, liveStreams>>
          ELSE /\ cameraState' = [cameraState EXCEPT !.isLoading = TRUE,
                                                     !.error = NullMsg]
               /\ liveStreams' = StopTracks(liveStreams, streamRef)
               /\ streamRef' = 0
               /\ inits' = Append(inits, NewInit)

\* The cleanup of the effect that ran with enabled = true, then the effect
\* with enabled = false.
EffectDisabled ==
  /\ camEnabled' = FALSE
  /\ inits' = Unmounted(inits)
  /\ liveStreams' = StopTracks(liveStreams, streamRef)
  /\ streamRef' = 0
  /\ cameraState' = [cameraState EXCEPT !.stream = 0, !.error = NullMsg,
                                        !.isLoading = FALSE]
  /\ UNCHANGED camSupported

\* `enabled` becomes true.
CameraEnabled ==
  /\ camMounted
  /\ ~camEnabled
  /\ EffectEnabled
  /\ UNCHANGED <<camMounted, retryTimer, coreVars, contVars, apiVars>>

\* `enabled` becomes false.
CameraDisabled ==
  /\ camMounted
  /\ camEnabled
  /\ EffectDisabled
  /\ UNCHANGED <<camMounted, retryTimer, coreVars, contVars, apiVars>>

\* The component unmounts: the cleanup of the last effect runs.
CameraUnmounted ==
  /\ camMounted
  /\ camMounted' = FALSE
  /\ IF camEnabled
     THEN /\ inits' = Unmounted(inits)
          /\ liveStreams' = StopTracks(liveStreams, streamRef)
          /\ streamRef' = 0
     ELSE UNCHANGED <<inits, liveStreams, streamRef>>
  /\ UNCHANGED <<camSupported, camEnabled, cameraState, retryTimer,
                 coreVars, contVars, apiVars>>

\* The 100 ms delay of call i elapses and it calls getUserMedia, whatever
\* its `mounted` flag.  Timers of equal delay run in the order they were
\* set.
DelayElapses(i) ==
  /\ inits[i].pc = "delay"
  /\ \A j \in 1..(i - 1) : inits[j].pc # "delay"
  /\ inits' = [inits EXCEPT ![i].pc = "requesting"]
  /\ UNCHANGED <<camSupported, camEnabled, camMounted, cameraState,
                 streamRef, liveStreams, retryTimer, coreVars, contVars,
                 apiVars>>

\* getUserMedia of call i resolves with stream i.  A call whose effect was
\* cleaned up stops the stream; otherwise the stream is kept in streamRef
\* and attached to the video element, or, without a video element, the call
\* succeeds at once.
GetUserMediaResolves(i) ==
  /\ inits[i].pc = "requesting"
  /\ IF ~StillMounted(inits[i])
     THEN /\ liveStreams' = StopTracks(liveStreams \cup {i}, i)
          /\ inits' = Ended(inits, i, "stopped")
          /\ UNCHANGED <<streamRef, cameraState>>
     ELSE /\ liveStreams' = liveStreams \cup {i}
          /\ streamRef' = i
          /\ \E hasVideo \in BOOLEAN :
               IF hasVideo
               THEN /\ inits' = [inits EXCEPT ![i].pc = "metadata"]
                    /\ UNCHANGED cameraState
               ELSE /\ inits' = Ended(inits, i, "ready")
                    /\ cameraState' = CameraReady(i)
  /\ UNCHANGED <<camSupported, camEnabled, camMounted, retryTimer,
                 coreVars, contVars, apiVars>>

\* getUserMedia of call i rejects.
GetUserMediaRejects(i) ==
  /\ inits[i].pc = "requesting"
  /\ \E e \in MediaErrors :
       IF StillMounted(inits[i])
       THEN /\ inits' = Ended(inits, i, "error")
            /\ cameraState' = CameraFailed(cameraState, CameraErrorMessage(e))
       ELSE /\ inits' = Ended(inits, i, "abandoned")
            /\ UNCHANGED cameraState
  /\ UNCHANGED <<camSupported, camEnabled, camMounted, streamRef,
                 liveStreams, retryTimer, coreVars, contVars, apiVars>>

\* The video element of call i loads its metadata, or the 5 s wait for it
\* ends.
MetadataSettles(i) ==
  /\ inits[i].pc = "metadata"
  /\ IF StillMounted(inits[i])
     THEN /\ inits' = Ended(inits, i, "ready")
          /\ cameraState' = CameraReady(i)
     ELSE /\ inits' = Ended(inits, i, "abandoned")
          /\ UNCHANGED cameraState
  /\ UNCHANGED <<camSupported, camEnabled, camMounted, streamRef,
                 liveStreams, retryTimer, coreVars, contVars, apiVars>>

\* The video element of call i raises an error while the call waits for the
\* metadata: the wait rejects and the catch stores the message.
VideoElementError(i) ==
  /\ inits[i].pc = "metadata"
  /\ IF StillMounted(inits[i])
     THEN /\ inits' = Ended(inits, i, "error")
          /\ cameraState' = CameraFailed(cameraState, MsgVideoFailed)
     ELSE /\ inits' = Ended(inits, i, "abandoned")
          /\ UNCHANGED cameraState
  /\ UNCHANGED <<camSupported, camEnabled, camMounted, streamRef,
                 liveStreams, retryTimer, coreVars, contVars, apiVars>>

\* The retry button is rendered.
RetryShown == cameraState.hasPermission = "false"

\* handlePermissionRetry: setCameraEnabled(false) and a 500 ms timer.  One
\* such timer is pending at a time.
handlePermissionRetry ==
  /\ camMounted
  /\ RetryShown
  /\ ~retryTimer
  /\ retryTimer' = TRUE
  /\ IF camEnabled THEN EffectDisabled
     ELSE UNCHANGED <<camSupported, camEnabled, cameraState, streamRef,
                      inits, liveStreams>>
  /\ UNCHANGED <<camMounted, coreVars, contVars, apiVars>>

\* The timer of handlePermissionRetry: setCameraEnabled(true).
RetryTimerFires ==
  /\ retryTimer
  /\ retryTimer' = FALSE
  /\ IF camMounted /\ ~camEnabled THEN EffectEnabled
     ELSE UNCHANGED <<camSupported, camEnabled, cameraState, streamRef,
                      inits, liveStreams>>
  /\ UNCHANGED <<camMounted, coreVars, contVars, apiVars>>

NextCamera ==
  \/ CameraEnabled
  \/ CameraDisabled
  \/ CameraUnmounted
  \/ \E i \in 1..Len(inits) : DelayElapses(i)
  \/ \E i \in 1..Len(inits) : GetUserMediaResolves(i)
  \/ \E i \in 1..Len(inits) : GetUserMediaRejects(i)
  \/ \E i \in 1..Len(inits) : MetadataSettles(i)
  \/ \E i \in 1..Len(inits) : VideoElementError(i)
  \/ handlePermissionRetry
  \/ RetryTimerFires

SpecCamera == Init /\ [][NextCamera]_vars

\* The wait for the metadata ends: its 5 s timer runs if nothing else ends
\* it.  Nothing is assumed of getUserMedia or of the user.
SpecCameraLive ==
  /\ SpecCamera
  /\ \A i \in 1..MaxInits :
       WF_vars(i <= Len(inits) /\ MetadataSettles(i))

(* ---------------------------------------------------------------------- *)
(* Properties of DeduplicationManager                                      *)
(* ---------------------------------------------------------------------- *)

\* What the most recent call was about: its key, the entry it found under
\* that key when it started and the entry stored under it now.  barcodeMap
\* changes only in calls, so it is the map the most recent call left.
CallKey == call.format \o ":" \o call.value
CallExisting == MapGet(call.before, CallKey)
CallStored == MapGet(barcodeMap, CallKey)
IsAdd == call.op = "addOrUpdate"
IsDuplicateCall ==
  IsAdd /\ CallExisting # Null /\ call.now < CallExisting.expiresAt
IsExpiredCall ==
  IsAdd /\ CallExisting # Null /\ call.now >= CallExisting.expiresAt

\* C1: addOrUpdate returns a non-null entry exactly when, at the wall-clock
\* time of the call, the store holds no entry for the key or one with
\* now >= expiresAt; it returns null exactly when a live entry exists.
C1_ReturnIffNoLiveEntry ==
  IsAdd =>
    /\ (call.ret # Null) <=>
         (CallExisting = Null \/ call.now >= CallExisting.expiresAt)
    /\ (call.ret = Null) <=>
         (CallExisting # Null /\ call.now < CallExisting.expiresAt)

\* C1 witness: a call made at the very instant the stored entry expires
\* (now = expiresAt) and answered with a new entry.
C1_Witness ==
  /\ IsAdd
  /\ CallExisting # Null
  /\ call.now = CallExisting.expiresAt
  /\ call.ret # Null

\* C2: a call on a live entry returns null, adds exactly 1 to
\* detectionCount, sets lastDetected to the call's timestamp and leaves id,
\* value, format and firstDetected as they were; detectionCount is the
\* number of calls accepted since the entry was created.
C2_DuplicateAbsorbed ==
  /\ IsDuplicateCall =>
       /\ call.ret = Null
       /\ CallStored # Null
       /\ CallStored.result.detectionCount =
            CallExisting.result.detectionCount + 1
       /\ CallStored.result.lastDetected = call.timestamp
       /\ CallStored.result.id = CallExisting.result.id
       /\ CallStored.result.value = CallExisting.result.value
       /\ CallStored.result.format = CallExisting.result.format
       /\ CallStored.result.firstDetected = CallExisting.result.firstDetected
  /\ \A i \in 1..Len(barcodeMap) :
       barcodeMap[i].result.detectionCount = accepted[barcodeMap[i].key]

\* C2 witness: the second duplicate of a key, with a timestamp other than
\* the entry's firstDetected.
C2_Witness ==
  /\ IsDuplicateCall
  /\ CallStored.result.detectionCount = 3
  /\ call.timestamp # CallStored.result.firstDetected

\* C3 (as claimed): a duplicate addOrUpdate on a live entry refreshes its
\* expiry to now + DUPLICATE_WINDOW_MS (sliding window).
C3_SlidingWindow ==
  IsDuplicateCall =>
    CallStored.expiresAt = call.now + DUPLICATE_WINDOW_MS

\* C4: addOrUpdate on a key whose entry has expired replaces it by a new
\* entry with firstDetected = lastDetected = the new timestamp and
\* detectionCount = 1; the old count and firstDetected do not survive.
C4_ExpiredReplaced ==
  IsExpiredCall =>
    /\ call.ret # Null
    /\ CallStored # Null
    /\ CallStored.result = call.ret
    /\ call.ret.firstDetected = call.timestamp
    /\ call.ret.lastDetected = call.timestamp
    /\ call.ret.detectionCount = 1
    /\ CallStored.expiresAt = call.now + DUPLICATE_WINDOW_MS
    /\ Len(barcodeMap) = Len(call.before)

\* C4 witness: the expired entry had been detected more than once and was
\* first detected at another timestamp.
C4_Witness ==
  /\ IsExpiredCall
  /\ CallExisting.result.detectionCount >= 2
  /\ CallExisting.result.firstDetected # call.timestamp

\* The entries of the map getResults found that were live when it ran.
LiveBefore ==
  {i \in 1..Len(call.before) : call.now < call.before[i].expiresAt}

\* C5: getResults returns exactly the entries live at call time and removes
\* every entry with now >= expiresAt, so the store holds no expired entry
\* afterwards; an entry submitted once and not re-submitted is gone from the
\* result and the store once its window has elapsed.
C5_GetResultsSweeps ==
  call.op = "getResults" =>
    /\ {call.ret[i] : i \in 1..Len(call.ret)} =
         {call.before[i].result : i \in LiveBefore}
    /\ Len(call.ret) = Cardinality(LiveBefore)
    /\ {barcodeMap[i] : i \in 1..Len(barcodeMap)} =
         {call.before[i] : i \in LiveBefore}
    /\ Len(barcodeMap) = Cardinality(LiveBefore)
    /\ \A i \in 1..Len(barcodeMap) : call.now < barcodeMap[i].expiresAt
    /\ \A i \in 1..Len(call.before) :
         (/\ call.before[i].result.detectionCount = 1
          /\ call.now >= call.before[i].expiresAt)
         => /\ call.before[i].key \notin StoredKeys(barcodeMap)
            /\ \A j \in 1..Len(call.ret) :
                 call.ret[j].id # call.before[i].key

\* C5 witness: getResults found an expired entry that was submitted once
\* next to a live one.
C5_Witness ==
  /\ call.op = "getResults"
  /\ LiveBefore # {}
  /\ \E i \in 1..Len(call.before) :
       /\ call.before[i].result.detectionCount = 1
       /\ call.now >= call.before[i].expiresAt

\* C6: the sequence getResults returns is sorted by firstDetected
\* descending: of two returned entries with firstDetected t1 < t2, the one
\* with t2 comes first.
C6_SortedDescending ==
  call.op = "getResults" =>
    \A i, j \in 1..Len(call.ret) :
      call.ret[i].firstDetected < call.ret[j].firstDetected => j < i

\* C6 witness: three entries returned whose insertion order was neither
\* ascending nor descending in firstDetected.
C6_Witness ==
  /\ call.op = "getResults"
  /\ Len(call.ret) = 3
  /\ Len(call.before) = 3
  /\ call.before[1].result.firstDetected < call.before[3].result.firstDetected
  /\ call.before[3].result.firstDetected < call.before[2].result.firstDetected

\* C7: clear() empties the store from any state; getResults right after a
\* clear returns the empty sequence; the next addOrUpdate, of a previously
\* stored key or any other, returns a new entry with detectionCount = 1;
\* a second clear leaves the state of the first.
C7_ClearEmpties ==
  [][/\ clear => barcodeMap' = <<>>
     /\ (call.op = "clear" /\ getResults) =>
          (call'.ret = <<>> /\ barcodeMap' = <<>>)
     /\ (call.op = "clear" /\ AddOrUpdateCall) =>
          /\ call'.ret # Null
          /\ call'.ret.detectionCount = 1
          /\ call'.ret.firstDetected = call'.timestamp
          /\ barcodeMap' =
               <<[key |-> call'.ret.id, result |-> call'.ret,
                  expiresAt |-> now + DUPLICATE_WINDOW_MS]>>
     /\ (call.op = "clear" /\ clear) => barcodeMap' = barcodeMap
    ]_vars

\* C7 witness: clear() was called on a store that held two entries, one of
\* them live and detected more than once.
C7_Witness ==
  /\ call.op = "clear"
  /\ Len(call.before) = 2
  /\ \E i \in 1..Len(call.before) :
       /\ call.now < call.before[i].expiresAt
       /\ call.before[i].result.detectionCount >= 2

\* C8 (as claimed): the store holds at most one entry per (format, value)
\* pair, every stored or returned entry has id = format + ":" + value with
\* the value and format of the call that created it, and detections that
\* differ in format or in value are kept as separate entries with
\* independent counts: a call leaves the entry of every other pair alone.
C8_SeparateEntries ==
  /\ \A i, j \in 1..Len(barcodeMap) :
       (/\ barcodeMap[i].result.format = barcodeMap[j].result.format
        /\ barcodeMap[i].result.value = barcodeMap[j].result.value) => i = j
  /\ \A i \in 1..Len(barcodeMap) :
       barcodeMap[i].result.id =
         barcodeMap[i].result.format \o ":" \o barcodeMap[i].result.value
  /\ (IsAdd /\ call.ret # Null) =>
       /\ call.ret.value = call.value
       /\ call.ret.format = call.format
       /\ call.ret.id = call.format \o ":" \o call.value
  /\ IsAdd =>
       \A i \in 1..Len(call.before) :
         (\/ call.before[i].result.format # call.format
          \/ call.before[i].result.value # call.value)
         => \E j \in 1..Len(barcodeMap) : barcodeMap[j] = call.before[i]

\* C9 (as claimed): lastDetected never decreases over the calls accepted
\* into one window, whatever timestamps are passed.
C9_LastDetectedMonotone ==
  IsDuplicateCall =>
    CallStored.result.lastDetected >= CallExisting.result.lastDetected

\* C9 (amended): a call accepted into a window sets lastDetected to its
\* timestamp, so lastDetected does not decrease exactly when the timestamp
\* passed is not smaller than the entry's lastDetected.
C9_LastDetectedFollowsTimestamp ==
  IsDuplicateCall =>
    (CallStored.result.lastDetected >= CallExisting.result.lastDetected
       <=> call.timestamp >= CallExisting.result.lastDetected)

\* C9 witness: a duplicate whose timestamp is later than the entry's
\* lastDetected, on an entry that had already absorbed a duplicate.
C9_Witness ==
  /\ IsDuplicateCall
  /\ call.timestamp > CallExisting.result.lastDetected
  /\ CallExisting.result.detectionCount >= 2

\* The display fields a timestamp argument may change.
WithoutTimes(result) ==
  [id |-> result.id, value |-> result.value, format |-> result.format,
   detectionCount |-> result.detectionCount]

\* C10: two runs of the same calls at the same wall-clock times with
\* different timestamp arguments agree on every null / non-null return, on
\* every expiresAt and on the keys getResults returns; they differ at most
\* in firstDetected / lastDetected and the order that follows from them.
C10_TimestampIrrelevant ==
  /\ call.op = callB.op
  /\ call.op = "addOrUpdate" => ((call.ret = Null) <=> (callB.ret = Null))
  /\ Len(barcodeMap) = Len(barcodeMapB)
  /\ \A i \in 1..Len(barcodeMap) :
       /\ i <= Len(barcodeMapB)
       /\ barcodeMap[i].key = barcodeMapB[i].key
       /\ barcodeMap[i].expiresAt = barcodeMapB[i].expiresAt
       /\ WithoutTimes(barcodeMap[i].result) =
            WithoutTimes(barcodeMapB[i].result)
  /\ call.op = "getResults" =>
       {WithoutTimes(call.ret[i]) : i \in 1..Len(call.ret)} =
         {WithoutTimes(callB.ret[i]) : i \in 1..Len(callB.ret)}

\* C10 witness: getResults returned the same keys in the two runs, in
\* different orders, after an entry expired in both.
C10_Witness ==
  /\ call.op = "getResults"
  /\ callB.op = "getResults"
  /\ Len(call.ret) >= 2
  /\ \E i \in 1..Len(call.ret) :
       i <= Len(callB.ret) /\ call.ret[i].id # callB.ret[i].id
  /\ nCalls = MaxCalls

\* C11 (as claimed): an entry handed out by getResults or by a non-null
\* addOrUpdate is a point-in-time value: later calls do not change its
\* detectionCount or lastDetected.
C11_ReturnedEntryNotAliased ==
  held # Null =>
    /\ held.value.detectionCount = held.snapshot.detectionCount
    /\ held.value.lastDetected = held.snapshot.lastDetected

\* The latest and the previous non-null return of the key of the most
\* recent call.
LastNotified(k) == notified[k][Len(notified[k])]
PrevNotified(k) == notified[k][Len(notified[k]) - 1]

AllowedMoves ==
  {<<"idle", "processing">>}
    \cup {<<"processing", f>> : f \in FinalStates}
    \cup {<<f, "idle">> : f \in FinalStates}

C14_TimeoutGivesError ==
  settle.kind = "timeout" =>
    scanState = "error" /\ errorMessage = MsgTimeout

\* C15: a decode that failed (image load error, no canvas context, a throw
\* in the decoder) leaves the scan state error, with a message.
C15_DecodeFailureGivesError ==
  settle.kind = "rejected" =>
    scanState = "error" /\ errorMessage # NullMsg

\* C16: the scan state is no-result exactly when the decode of the captured
\* frame completed successfully with zero detections.
C16_NoResultIffEmptyDecode ==
  scanState = "no-result" <=>
    settle.kind = "resolved" /\ settle.data = <<>>

\* C17: a decode that returns at least one detection leaves the scan state
\* completed, and completed is entered only from such a decode, with a
\* non-empty deduplicated result list.
C17_CompletedIffDetections ==
  [][/\ (settle' # settle /\ settle'.kind = "resolved"
          /\ Len(settle'.data) > 0)
         => scanState' = "completed"
     /\ (scanState' = "completed" /\ scanState # "completed")
         => /\ settle'.kind = "resolved"
            /\ Len(settle'.data) > 0
            /\ Len(results') > 0
            /\ results' = DoGetResults(barcodeMap', now).ret]_vars

\* Completed after a decode with three detections, two of them the same
\* barcode: the list shows two entries.
C17_Witness ==
  /\ scanState = "completed"
  /\ Len(settle.data) = 3
  /\ Len(results) = 2

\* C19: the scan state leaves completed, no-result and error only in a
\* scan-another step, and a scan-another step sets it to idle and empties
\* the displayed results and the store.
C19_LeftOnlyByCaptureAnother ==
  [][/\ (scanState \in FinalStates /\ scanState' # scanState)
         => handleCaptureAnother
     /\ handleCaptureAnother
         => /\ scanState' = "idle"
            /\ results' = <<>>
            /\ barcodeMap' = <<>>]_vars

\* Idle again, results and store empty, after a decode that had found more
\* than one barcode.
C19_Witness ==
  /\ scanState = "idle"
  /\ Len(detect.found) > 1
  /\ results = <<>>
  /\ barcodeMap = <<>>

\* C20: in error the message is not null; in idle and in processing (after
\* scan-another, after the next capture started) it is null.
C20_ErrorHasMessage ==
  /\ scanState = "error" => errorMessage # NullMsg
  /\ scanState \in {"idle", "processing"} => errorMessage = NullMsg

\* The error state after captureAsDataUrl threw a value that is not an
\* Error, before any decode started.
C20_Witness ==
  /\ scanState = "error"
  /\ errorMessage = MsgDetectionFailed
  /\ detect = NoDetect

\* C18: a capture never hangs: from every state in processing the run
\* reaches completed, no-result or error, whatever the decoder does.
C18_ProcessingEnds ==
  (scanState = "processing") ~> (scanState \in FinalStates)

\* The (format, value) a detection is forwarded with, and how often it
\* occurs among the detections `data` of one decode.
ForwardedPair(result) ==
  [format |-> DetectedFormat(result), value |-> DetectedValue(result)]

ForwardedPairs(data) == {ForwardedPair(data[i]) : i \in 1..Len(data)}

Occurrences(data, pair) ==
  Cardinality({i \in 1..Len(data) : ForwardedPair(data[i]) = pair})

\* The (format, value) an entry of the result list shows.
ShownPair(result) == [format |-> result.format, value |-> result.value]

\* C21: when a decode returns the detections D, the result list set by that
\* capture has exactly one entry per distinct (format, value) of D, and the
\* entry's detectionCount is the number of times the pair occurs in D.
C21_OneEntryPerDistinctDetection ==
  [][(settle' # settle /\ settle'.kind = "resolved")
       => /\ Len(results') = Cardinality(ForwardedPairs(settle'.data))
          /\ {ShownPair(results'[i]) : i \in 1..Len(results')}
               = ForwardedPairs(settle'.data)
          /\ \A i \in 1..Len(results') :
               results'[i].detectionCount
                 = Occurrences(settle'.data, ShownPair(results'[i]))]_vars

\* A decode returned the same barcode twice and another one once: two
\* entries, one of them counted twice.
C21_Witness ==
  /\ settle.kind = "resolved"
  /\ Len(settle.data) = 3
  /\ Len(results) = 2
  /\ \E i \in 1..Len(results) : results[i].detectionCount = 2
  /\ \E i \in 1..Len(results) : results[i].detectionCount = 1

\* An event of a detectFromImage call that has already settled: a callback
\* of its decode or its timeout, for the current call or for the earlier
\* one.
LateEvent ==
  \/ ~detect.pending /\ (DecodeCallback \/ TimeoutFires)
  \/ PriorDecodeCallback
  \/ PriorTimeoutFires

\* C22: an event of a call that has settled changes neither results, error,
\* isScanning, the store nor the scan state, also while a newer capture is
\* in progress.
C22_LateEventsNotApplied ==
  [][LateEvent => UNCHANGED <<results, error, isScanning, barcodeMap,
                              scanState>>]_vars

\* A newer capture is being decoded and the timeout of the earlier call has
\* fired after that call had settled.
C22_Witness ==
  /\ scanState = "processing"
  /\ detect.pending
  /\ prior.hasResolved
  /\ prior.timer = "fired"

\* C28: one analysis of a captured image forwards every distinct (format,
\* value) to addOrUpdate at most once, so no entry of its result list has a
\* detectionCount above 1.
C28_ForwardedAtMostOnce ==
  /\ settle.kind = "resolved"
       => \A pair \in ForwardedPairs(settle.data) :
            Occurrences(settle.data, pair) = 1
  /\ \A i \in 1..Len(results) : results[i].detectionCount <= 1

\* C30: a capture starts only from idle, with a stream and with isScanning
\* false, when no detectFromImage call is in flight; so at most one call is
\* in flight at any time, and only during processing.
C30_SingleShotSerial ==
  [][/\ (scanState' = "processing" /\ scanState # "processing")
         => /\ scanState = "idle"
            /\ stream
            /\ ~isScanning
            /\ ~detect.pending
            /\ ~prior.pending
     /\ ~(detect'.pending /\ prior'.pending)
     /\ detect'.pending => scanState' = "processing"]_vars

\* A second capture is in flight while the timeout of the first, which had
\* ended at once, is still armed.
C30_Witness ==
  /\ scanState = "processing"
  /\ detect.pending
  /\ prior.timer = "armed"
  /\ ~prior.pending

(* ---------------------------------------------------------------------- *)
(* Properties of useCamera                                                 *)
(* ---------------------------------------------------------------------- *)

\* Call i calls getUserMedia in this step.
Requests(i) ==
  /\ i \in 1..Len(inits)
  /\ inits[i].pc = "delay"
  /\ inits'[i].pc = "requesting"

\* An initializeCamera call starts in this step.
InitStarts == Len(inits') > Len(inits)

\* The last initializeCamera call ended in its catch and the camera has not
\* been disabled or unmounted since.
InitFailed ==
  /\ camMounted
  /\ camEnabled
  /\ inits # <<>>
  /\ inits[Len(inits)].outcome = "error"

C24_ReleasedOnEveryExit ==
  (~camEnabled \/ ~camMounted \/ InitFailed)
    => streamRef = 0 /\ liveStreams = {}

FRAME_SKIP == 2

\* README.md: "Min 100ms between detections".
MAX_FRAME_RATE_MS == 100

\* Variant: every tick is eligible.
FrameEligible_Always(count) == TRUE

\* Frame-skip: only every Nth tick is eligible for analysis.
FrameEligible(count) == count % FRAME_SKIP = 0

\* Rate-throttle: at least MAX_FRAME_RATE_MS since the last attempt.
ThrottleOpen(last, t) == last = -1 \/ t - last >= MAX_FRAME_RATE_MS

\* Variant: the in-flight flag is not consulted.
NotBusy_Ignored(flag) == TRUE

\* Mutual exclusion: no previous attempt is still in flight.
NotBusy(flag) == ~flag

\* What a sampling tick does with the frame it is given.
TickOutcome(count, last, t, ready, flag) ==
  IF ~FrameEligible(count) THEN "frame-skip"
  ELSE IF ~ThrottleOpen(last, t) THEN "throttled"
  ELSE IF ~ready THEN "not-ready"
  ELSE IF ~NotBusy(flag) THEN "busy"
  ELSE "attempt"

\* The detections of one tick without the repeated (format, value) pairs.
RECURSIVE DedupInTick(_)
DedupInTick(data) ==
  IF data = <<>> THEN <<>>
  ELSE LET rest == DedupInTick(SelectSeq(Tail(data),
                                         LAMBDA d : d # Head(data)))
       IN  <<Head(data)>> \o rest

\* The tick's detections forwarded to the duplicate manager.
RECURSIVE ForwardAll(_, _, _)
ForwardAll(map, data, t) ==
  IF data = <<>> THEN map
  ELSE ForwardAll(DoAddOrUpdate(map, Head(data).value, Head(data).format,
                                t, t).map,
                  Tail(data), t)

\* `enabled` becomes true: the first tick is scheduled.
ContEnable ==
  /\ ~contEnabled
  /\ contEnabled' = TRUE
  /\ scheduled' = TRUE
  /\ UNCHANGED <<frameCount, lastAttempt, prevAttempt, inFlight, running,
                 attempts, tickLog, coreVars, camVars, apiVars>>

\* `enabled` becomes false: the pending tick is cancelled.
ContDisable ==
  /\ contEnabled
  /\ contEnabled' = FALSE
  /\ scheduled' = FALSE
  /\ UNCHANGED <<frameCount, lastAttempt, prevAttempt, inFlight, running,
                 attempts, tickLog, coreVars, camVars, apiVars>>

\* A display-refresh tick: the gates, then the decode attempt; the next
\* tick is scheduled.
SamplingTick ==
  /\ scheduled
  /\ frameCount < MaxTicks
  /\ \E ready \in BOOLEAN :
       LET outcome == TickOutcome(frameCount + 1, lastAttempt, now, ready,
                                  inFlight)
       IN  /\ frameCount' = frameCount + 1
           /\ tickLog' = Append(tickLog, outcome)
           /\ IF outcome = "attempt"
              THEN /\ prevAttempt' = lastAttempt
                   /\ lastAttempt' = now
                   /\ inFlight' = TRUE
                   /\ running' = running + 1
                   /\ attempts' = attempts + 1
              ELSE UNCHANGED <<prevAttempt, lastAttempt, inFlight, running,
                               attempts>>
  /\ UNCHANGED <<contEnabled, scheduled, coreVars, camVars, apiVars>>

\* The decode of a frame returns: its detections are deduplicated, forwarded
\* and shown unless the driver was disabled meanwhile.
DecodeReturns ==
  /\ running > 0
  /\ running' = running - 1
  /\ inFlight' = FALSE
  /\ \E data \in ContDecoded :
       IF contEnabled
       THEN LET got == DoGetResults(ForwardAll(barcodeMap, DedupInTick(data),
                                               now), now)
            IN  /\ barcodeMap' = got.map
                /\ results' = got.ret
       ELSE UNCHANGED <<barcodeMap, results>>
  /\ UNCHANGED <<contEnabled, scheduled, frameCount, lastAttempt, prevAttempt,
                 attempts, tickLog, now, call, nCalls, accepted, barcodeMapB,
                 callB, clientVars, camVars, apiVars, scanState, errorMessage,
                 cameraEnabled, stream, isScanning, error, capturePc, detect,
                 settle, prior>>

\* The decode of a frame fails: the error is ignored.
DecodeThrows ==
  /\ running > 0
  /\ running' = running - 1
  /\ inFlight' = FALSE
  /\ UNCHANGED <<contEnabled, scheduled, frameCount, lastAttempt, prevAttempt,
                 attempts, tickLog, coreVars, camVars, apiVars>>

\* Time passes between two events of the driver.
ContTimePasses ==
  /\ \E d \in ContTickSteps : now + d <= MaxContNow /\ now' = now + d
  /\ UNCHANGED <<barcodeMap, managerAux, appVars>>

NextContinuous ==
  \/ ContEnable
  \/ ContDisable
  \/ SamplingTick
  \/ DecodeReturns
  \/ DecodeThrows
  \/ ContTimePasses

SpecContinuous == Init /\ [][NextContinuous]_vars

(***************************************************************************)
(* Properties of continuous scanning.                                      *)
(***************************************************************************)

\* The decode invocations made by the ticks i..j.
Invocations(i, j) ==
  Cardinality({k \in i..j : tickLog[k] = "attempt"})

\* The runs of consecutive sampling ticks so far.
TickRuns == {w \in (1..Len(tickLog)) \X (1..Len(tickLog)) : w[1] <= w[2]}

\* Two consecutive invocations start at least MAX_FRAME_RATE_MS apart.
InvocationsSpaced ==
  prevAttempt # -1 => lastAttempt - prevAttempt >= MAX_FRAME_RATE_MS

\* C26: in continuous mode, across any run of N sampling ticks the decode
\* capability is invoked at most N / frameSkip times, and two consecutive
\* invocations start at least MAX_FRAME_RATE_MS apart.
C26_RateBounded ==
  /\ \A w \in TickRuns :
       Invocations(w[1], w[2]) * FRAME_SKIP <= w[2] - w[1] + 1
  /\ InvocationsSpaced

\* C26 (amended): across any run of N sampling ticks the decode capability
\* is invoked at most N / frameSkip times rounded up, and two consecutive
\* invocations start at least MAX_FRAME_RATE_MS apart.
C26_RateBoundedRoundedUp ==
  /\ \A w \in TickRuns :
       Invocations(w[1], w[2]) * FRAME_SKIP <= w[2] - w[1] + FRAME_SKIP
  /\ InvocationsSpaced

\* Two invocations within a run of three ticks, as many as the frame-skip
\* allows and as close as the throttle allows.
C26_Witness ==
  /\ Len(tickLog) = 2 * FRAME_SKIP
  /\ Invocations(FRAME_SKIP, 2 * FRAME_SKIP) = 2
  /\ lastAttempt - prevAttempt = MAX_FRAME_RATE_MS

\* C27: in continuous mode at most one decode invocation is in flight at any
\* time.
C27_OneDecodeInFlight == running <= 1

\* A tick that passed the other gates was skipped because the previous
\* decode has not finished.
C27_Witness ==
  /\ tickLog # <<>>
  /\ tickLog[Len(tickLog)] = "busy"
  /\ running = 1

(***************************************************************************)
(* The upload-based variant: useBarcodeAPI.                                *)
(***************************************************************************)

\* JavaScript values of a response body's fields.
Undefined == [type |-> "undefined", text |-> ""]
Str(text) == [type |-> "string", text |-> text]

\* `${v}`: the string a template literal makes of v.
TemplateString(v) == IF v.type = "undefined" THEN "undefined" ELSE v.text

\* v || fallback for a string or undefined v.
OrElse(v, fallback) ==
  IF v.type = "undefined" \/ v.text = "" THEN fallback ELSE v.text

\* Elements of `barcodes`: null, an object without fields, a barcode.
ItemNull == [isNull |-> TRUE, value |-> Undefined, format |-> Undefined]
ItemEmpty == [isNull |-> FALSE, value |-> Undefined, format |-> Undefined]
ItemA == [isNull |-> FALSE, value |-> Str("a"), format |-> Str("qr_code")]

\* Bodies of a 2xx response: text that is not JSON, null, an object without
\* `barcodes`, with a number for it, or with a list.
Body(json, barcodes, items) ==
  [json |-> json, barcodes |-> barcodes, items |-> items]
Bodies ==
  {Body("invalid", "missing", <<>>), Body("null", "missing", <<>>),
   Body("object", "missing", <<>>), Body("object", "number", <<>>)}
  \cup {Body("object", "array", items) :
          items \in {<<>>, <<ItemA>>, <<ItemA, ItemA>>, <<ItemNull>>,
                     <<ItemEmpty>>, <<ItemA, ItemEmpty>>}}

\* Bodies of a response that is not ok.
ErrorBody(json, detail, errorText) ==
  [json |-> json, detail |-> detail, error |-> errorText]
ErrorBodies ==
  {ErrorBody("invalid", Undefined, Undefined),
   ErrorBody("null", Undefined, Undefined),
   ErrorBody("object", Str("No image"), Undefined),
   ErrorBody("object", Undefined, Str("Server error")),
   ErrorBody("object", Undefined, Undefined)}

\* What response.json() and the reads of its result throw.
SyntaxError == [isError |-> TRUE, text |-> "Unexpected token"]
TypeErrorNull == [isError |-> TRUE, text |-> "Cannot read properties of null"]
TypeErrorMap == [isError |-> TRUE, text |-> "map is not a function"]

MsgApiNoBarcodes == "No barcodes found"
MsgUnknownError == "Unknown error"

\* `Backend error: ${errorMsg}`
BackendError(errorData) ==
  [isError |-> TRUE,
   text |-> "Backend error: "
            \o OrElse(errorData.detail,
                      OrElse(errorData.error, "Backend error"))]

\* error instanceof Error ? error.message : 'Unknown error'
ApiCaughtMessage(e) == IF e.isError THEN e.text ELSE MsgUnknownError

\* The body is { barcodes: [{ value, format }, ...] }.
WellFormed(body) ==
  /\ body.json = "object"
  /\ body.barcodes = "array"
  /\ \A i \in 1..Len(body.items) :
       /\ ~body.items[i].isNull
       /\ body.items[i].value.type = "string"
       /\ body.items[i].format.type = "string"

\* The callback of (data.barcodes || []).map.
ToResult(barcode, t) ==
  [id |-> TemplateString(barcode.format) \o ":" \o TemplateString(barcode.value),
   value |-> barcode.value, format |-> barcode.format,
   firstDetected |-> t, lastDetected |-> t, detectionCount |-> 1]

\* What reading a 2xx body ends in: the results, or the value thrown.
Returned(list) == [threw |-> FALSE, results |-> list, thrown |-> SyntaxError]
Threw(e) == [threw |-> TRUE, results |-> <<>>, thrown |-> e]
ReadBody(body, t) ==
  IF body.json = "invalid" THEN Threw(SyntaxError)
  ELSE IF body.json = "null" THEN Threw(TypeErrorNull)
  ELSE IF body.barcodes = "missing" THEN Returned(<<>>)
  ELSE IF body.barcodes = "number" THEN Threw(TypeErrorMap)
  ELSE IF \E i \in 1..Len(body.items) : body.items[i].isNull
       THEN Threw(TypeErrorNull)
  ELSE Returned([i \in 1..Len(body.items) |-> ToResult(body.items[i], t)])

\* What reading the body of a response that is not ok throws.
ReadErrorBody(errorData) ==
  IF errorData.json = "invalid" THEN SyntaxError
  ELSE IF errorData.json = "null" THEN TypeErrorNull
  ELSE BackendError(errorData)

\* Variant: the catch block of scanImage keeps the result list.
ApiCaught_KeepsResults(e, failure) ==
  /\ apiState' = [apiState EXCEPT !.isScanning = FALSE,
                                  !.error = ApiCaughtMessage(e)]
  /\ apiCall' = [phase |-> "resolved", ret |-> <<>>, failure |-> failure]

\* The catch block of scanImage.
ApiCaught(e, failure) ==
  /\ apiState' = [results |-> <<>>, isScanning |-> FALSE,
                  error |-> ApiCaughtMessage(e)]
  /\ apiCall' = [phase |-> "resolved", ret |-> <<>>, failure |-> failure]

\* scanImage is called: the state before the upload.
scanImage ==
  /\ apiCall.phase # "fetching"
  /\ apiState' = [apiState EXCEPT !.isScanning = TRUE, !.error = NullMsg]
  /\ apiCall' = [phase |-> "fetching", ret |-> <<>>, failure |-> "none"]
  /\ UNCHANGED <<coreVars, camVars, contVars>>

\* fetch rejects: the network failed.
FetchRejects ==
  /\ apiCall.phase = "fetching"
  /\ \E e \in Thrown : ApiCaught(e, "network")
  /\ UNCHANGED <<coreVars, camVars, contVars>>

\* The response is not ok: its body is read and the error thrown.
ResponseNotOk ==
  /\ apiCall.phase = "fetching"
  /\ \E errorData \in ErrorBodies :
       ApiCaught(ReadErrorBody(errorData), "status")
  /\ UNCHANGED <<coreVars, camVars, contVars>>

\* The response is ok: its body is read, transformed and stored.
ResponseOk ==
  /\ apiCall.phase = "fetching"
  /\ \E body \in Bodies :
       LET read == ReadBody(body, now)
           failure == IF WellFormed(body) THEN "none" ELSE "malformed"
       IN  IF read.threw
           THEN ApiCaught(read.thrown, failure)
           ELSE /\ apiState' =
                     [results |-> read.results, isScanning |-> FALSE,
                      error |-> IF Len(read.results) = 0
                                THEN MsgApiNoBarcodes ELSE NullMsg]
                /\ apiCall' = [phase |-> "resolved", ret |-> read.results,
                               failure |-> failure]
  /\ UNCHANGED <<coreVars, camVars, contVars>>

\* clearResults of useBarcodeAPI.
ApiClearResults ==
  /\ apiState' = [apiState EXCEPT !.results = <<>>, !.error = NullMsg]
  /\ UNCHANGED <<apiCall, coreVars, camVars, contVars>>

\* Time passes between two events of the upload.
ApiTimePasses ==
  /\ \E d \in ApiTickSteps : now + d <= MaxApiNow /\ now' = now + d
  /\ UNCHANGED <<barcodeMap, managerAux, appVars>>

NextApi ==
  \/ scanImage
  \/ FetchRejects
  \/ ResponseNotOk
  \/ ResponseOk
  \/ ApiClearResults
  \/ ApiTimePasses

SpecApi == Init /\ [][NextApi]_vars

(***************************************************************************)
(* Properties of the upload-based variant.                                 *)
(***************************************************************************)

\* A call of scanImage that failed settles in this step.
ScanImageFails ==
  /\ apiCall.phase = "fetching"
  /\ apiCall'.phase # "fetching"
  /\ apiCall'.failure # "none"

\* C29: every failure of scanImage (network error, status that is not 2xx,
\* malformed body) ends the same way: scanImage resolves with an empty list,
\* results are empty, error is a message and isScanning is false.
C29_FailuresMapUniformly ==
  [][ScanImageFails =>
       /\ apiCall'.phase = "resolved"
       /\ apiCall'.ret = <<>>
       /\ apiState'.results = <<>>
       /\ apiState'.error # NullMsg
       /\ ~apiState'.isScanning]_vars

(***************************************************************************)
(* Further properties of the duplicate manager.                            *)
(***************************************************************************)

\* The entries stored before the last call under another key than its own.
OtherEntriesBefore ==
  {call.before[i] : i \in {j \in 1..Len(call.before) :
     call.before[j].key # generateKey(call.value, call.format)}}

\* The entries stored now under another key than the last call's.
OtherEntriesNow ==
  {barcodeMap[i] : i \in {j \in 1..Len(barcodeMap) :
     barcodeMap[j].key # generateKey(call.value, call.format)}}

\* C36 (as claimed): distinct (format, value) pairs never share an entry,
\* also when a format or a value contains ':': a call that is counted as a
\* duplicate found a live entry of its own format and value.
C36_NoSharedEntry ==
  (IsAdd /\ call.ret = Null) =>
    \E i \in 1..Len(call.before) :
      /\ IsLive(call.before[i], call.now)
      /\ call.before[i].result.format = call.format
      /\ call.before[i].result.value = call.value

\* C39: addOrUpdate for key k changes only the entry of k: the entries of
\* the other keys are stored after the call exactly as before it, expired
\* ones included.
C39_OnlyOwnEntryChanges ==
  IsAdd => OtherEntriesNow = OtherEntriesBefore

\* C39 witness: an addOrUpdate left the expired entry of another key in the
\* store.
C39_Witness ==
  /\ IsAdd
  /\ \E e \in OtherEntriesBefore : ~IsLive(e, call.now) /\ e \in OtherEntriesNow

(***************************************************************************)
(* Further properties of single-shot scanning.                             *)
(***************************************************************************)

\* C31: the camera is asked for only while the scan state is idle and the
\* toggle is on: once a handler has run, in processing, completed,
\* no-result and error the flag passed to useCamera is false and no stream
\* is held, and a stream is acquired only in idle with the toggle on.  (The
\* state set by setScanState reaches useCamera when the handler yields.)
C31_CameraOnlyWhileIdle ==
  [][/\ (capturePc' = "none" /\ scanState' # "idle") =>
          /\ ~CameraWanted(cameraEnabled', scanState')
          /\ ~stream'
     /\ (~stream /\ stream') => (scanState = "idle" /\ cameraEnabled)]_vars

\* C31 witness: a capture has completed with the toggle on, and the stream
\* that was held when it started is released.
C31_Witness ==
  /\ scanState = "completed"
  /\ cameraEnabled
  /\ capturePc = "none"
  /\ ~stream

\* C32: isScanning is true exactly while a detectFromImage call is in
\* flight: from the start of the call until its race has settled, on every
\* path (results found, no results, decode error, timeout).
C32_ScanningIffInFlight == isScanning <=> detect.pending

\* C32 witness: a call settled by its timeout, and isScanning is false.
C32_Witness ==
  /\ settle.kind = "timeout"
  /\ detect.timer = "fired"
  /\ ~isScanning

\* The time at which the current detectFromImage call started.
CallStart == detect.deadline - DETECTION_TIMEOUT

C37_CompletedHasResults == scanState = "completed" => Len(results) > 0

\* C38: whenever the scan state is idle, the displayed result list and the
\* store are both empty, initially and after every return to idle.
C38_IdleIsEmpty ==
  scanState = "idle" => (results = <<>> /\ barcodeMap = <<>>)

\* C38 witness: the scan-another button was pressed after a capture that had
\* found barcodes; list and store are empty.
C38_Witness ==
  /\ scanState = "idle"
  /\ detect.phase = "finished"
  /\ detect.found # <<>>
  /\ results = <<>>
  /\ barcodeMap = <<>>

(***************************************************************************)
(* Further properties of useCamera.                                        *)
(***************************************************************************)

\* getUserMedia of call i settles in this step after the call's effect was
\* cleaned up (the camera was disabled or the component unmounted while the
\* delay or getUserMedia was pending).
SettlesAfterCleanup(i) ==
  /\ inits[i].pc = "requesting"
  /\ ~inits[i].mounted
  /\ inits'[i].pc # "requesting"

\* C34: a stream that getUserMedia delivers after the camera was disabled or
\* the component unmounted is stopped at once, is not stored in streamRef
\* and changes neither stream, hasPermission, isLoading nor error.
C34_LateStreamDiscarded ==
  [][\A i \in 1..Len(inits) :
       SettlesAfterCleanup(i) =>
         /\ inits'[i].pc = "done"
         /\ i \notin liveStreams'
         /\ streamRef' # i
         /\ streamRef' = streamRef
         /\ cameraState' = cameraState]_vars

\* C34 witness: the stream of the first call arrived after its cleanup and
\* was stopped, while the second call holds its own stream.
C34_Witness ==
  /\ Len(inits) >= 2
  /\ inits[1].outcome = "stopped"
  /\ streamRef = 2
  /\ liveStreams = {2}

\* Call i holds the stream getUserMedia delivered and waits for the video
\* element's metadata, with the hook still enabled.
AwaitsMetadata(i) ==
  /\ i <= Len(inits)
  /\ inits[i].pc = "metadata"
  /\ inits[i].mounted

\* Call i has ended with isLoading false, and with its stream published and
\* hasPermission true unless the video element raised an error.
InitSettled(i) ==
  /\ i <= Len(inits)
  /\ inits[i].pc = "done"
  /\ ~cameraState.isLoading
  /\ inits[i].outcome = "ready" =>
       /\ cameraState.stream = i
       /\ cameraState.hasPermission = "true"

\* The effect that started call i was cleaned up: the hook was disabled or
\* unmounted.
CleanedUp(i) == i <= Len(inits) /\ ~inits[i].mounted

\* C35: once getUserMedia has delivered a stream and the hook stays enabled,
\* the initialization ends: isLoading becomes false after loadedmetadata, a
\* video error or the 5000 ms timeout, and after loadedmetadata and the
\* timeout the stream is published with hasPermission = true.
C35_InitializationEnds ==
  \A i \in 1..MaxInits :
    AwaitsMetadata(i) ~> (InitSettled(i) \/ CleanedUp(i))

\* C35 witness: the second call waited for the metadata and published its
\* stream.
C35_Witness ==
  /\ Len(inits) >= 2
  /\ inits[2].pc = "done"
  /\ inits[2].outcome = "ready"
  /\ inits[2].mounted
  /\ cameraState.stream = 2
  /\ cameraState.hasPermission = "true"
  /\ ~cameraState.isLoading

(***************************************************************************)
(* The detection hooks.  An application decodes with one of them: with     *)
(* useBarcodeDetection or with its upload-based variant useBarcodeAPI.     *)
(***************************************************************************)

\* detectFromImage of useBarcodeDetection was never called.
DetectionUnused ==
  /\ scanState = "idle"
  /\ capturePc = "none"
  /\ detect = NoDetect
  /\ settle = NoSettle

\* scanImage of useBarcodeAPI was never called.
ApiUnused == apiCall.phase = "none"

NextEitherHook ==
  \/ ApiUnused /\ NextApp
  \/ DetectionUnused /\ NextApi

SpecEitherHook == Init /\ [][NextEitherHook]_vars

\* A call of scanImage settles in this step.
ScanImageSettles == apiCall.phase = "fetching" /\ apiCall'.phase # "fetching"

\* C40: in the state of useBarcodeDetection and of useBarcodeAPI an error
\* that is not null goes with an empty result list, and a call that settles
\* with a result list that is not empty leaves the error null, after every
\* sequence of scans, failures and clearResults.
C40_ErrorExcludesResults ==
  [][/\ error' # NullMsg => results' = <<>>
     /\ apiState'.error # NullMsg => apiState'.results = <<>>
     /\ (settle' # settle /\ settle'.kind # "none" /\ results' # <<>>)
          => error' = NullMsg
     /\ (ScanImageSettles /\ apiState'.results # <<>>)
          => apiState'.error = NullMsg]_vars

\* C40 witness: a scan of useBarcodeAPI failed after time had passed; the
\* error is set and the list is empty.
C40_Witness ==
  /\ apiCall.phase = "resolved"
  /\ apiCall.failure = "status"
  /\ now > 0
  /\ apiState.error # NullMsg
  /\ apiState.results = <<>>

====
